---------------------------- MODULE Spec2Model ----------------------------
(***************************************************************************)
(* Model of the telephony event forwarder (calleventhub).                  *)
(*                                                                         *)
(* The delivery pipeline is                                                *)
(*   POST /events -> Publisher -> JetStream -> fetch loop -> msgChan ->    *)
(*   ConsumerService.Start -> processMessage -> Forwarder.ForwardEvent ->  *)
(*   one goroutine per endpoint -> join -> store -> Ack.                   *)
(*                                                                         *)
(* Time is counted in whole seconds.  The steps of the service take no     *)
(* time; time passes only while an HTTP request is outstanding or while    *)
(* the stream waits for an acknowledgement (action Tick).                  *)
(*                                                                         *)
(* A JSON object is a function from its keys to values; a value is a       *)
(* record [t, s] with t the JSON type and s the literal.  The keys of an   *)
(* object appear in the document in the order of KeyOrder.                 *)
(*                                                                         *)
(* Spec follows one stream message from its publication to its last        *)
(* delivery; FairSpec adds that time passes and every step due is taken;   *)
(* SpecIngress is the handler of POST /events on its own; SpecStartup is   *)
(* main loading its configuration; SpecReload is the configuration file,   *)
(* its watcher, POST /reload and a route lookup; SpecHotReload is the      *)
(* delivery of one event while the file is edited and reloaded; SpecStore  *)
(* is the event store on its own; SpecShutdown is the delivery of one      *)
(* event across a shutdown and a restart of the service; SpecHealth is     *)
(* GET /health while the transport drops and returns; SpecStreamMessages   *)
(* is GET /api/stream/messages; SpecConcurrent is the pipeline with        *)
(* several events in it at once; SpecWatcher is the file watcher with its  *)
(* ticks taken; SpecCopies is the store with callers that change what its  *)
(* getters returned; SpecStats is GET /api/stats; SpecPublisher is the     *)
(* ingress under several subject patterns; SpecBurst is the delivery of    *)
(* one event while other deliveries fill msgChan; SpecAckError is the      *)
(* pipeline with acknowledgements that fail; SpecHandlerConfig is the      *)
(* handler's config reference under watcher and manual reloads.            *)
(***************************************************************************)
EXTENDS Integers, Sequences, FiniteSets, TLC

VARIABLES
    cfg,               \* the configuration loaded at startup (config.Config, nats section)
    routes,            \* Forwarder.config.Routes: the live route table
    stream,            \* the JetStream stream: the payloads published, in order
    cons,              \* the durable consumer's delivery state, per stream sequence
    msgChan,           \* Consumer.msgChan
    tasks,             \* the running processMessage goroutines
    epTasks,           \* the running endpoint goroutines of ForwardEvent
    successfulEvents,  \* Store.successfulEvents
    failedEvents,      \* Store.failedEvents
    acks,              \* the Ack calls made: [seq, attempt]
    naks,              \* the Nak calls made: [seq, attempt]
    dispatches,        \* the ForwardEvent calls made: [seq, attempt, domain, endpoints, epoch]
    posts,             \* the HTTP POSTs issued: [seq, attempt, idx, url, body]
    responses,         \* the outcomes observed: [seq, attempt, idx, url, res]
    httpLog,           \* the POST /events exchanges: [method, body, status, text, publish, seq]
    proc,              \* the service process: "boot", "running", "stopping",
                       \* "stopped", "down" or "exited"
    configFile,        \* what the config file holds: [kind, conf, routes]
    modTime,           \* the modification time of the config file
    lastModTime,       \* watchConfigFile's lastModTime
    reloads,           \* the ReloadConfig calls made, see Reloaded
    lookup,            \* a route lookup in progress or finished, see LookupBegin
    maxSize,           \* Store.maxSize: the entries each list of the store keeps
    added,             \* the entries handed to the store in SpecStore, in call
                       \* order: [list, event, attempt]
    natsUp,            \* Publisher.conn.IsConnected(): the transport is connected
    connected,         \* Publisher.connected, the flag monitorConnection keeps
    transients,        \* the transient consumers that exist on the stream
    apiLog,            \* the GET exchanges of the observability API, oldest first
    heap,              \* the backing arrays of the Endpoints slices handed to the
                       \* store, by address
    returned,          \* the collection a caller of a store getter holds
    backlog,           \* the slots of msgChan taken by deliveries of other messages
    handler            \* Handler.config and the config references on their way to
                       \* it: [config, watcher, api], see WatcherReloadConfig

\* no getter of the store has been called
NothingReturned == [alias |-> FALSE, list |-> <<>>]

\* no config reference that is on its way to the handler
NoRef == -1

\* ReloadConfig has returned and GetConfig has not been called yet
AwaitingGetConfig == -2

\* NewHandler: the handler holds the Config main loaded, which is reference 0
StartupHandler == [config |-> 0, watcher |-> NoRef, api |-> NoRef]

\* the config file, its watcher, the reload history, the lookup, the
\* capacity of the store with the calls made on it, the transport and the
\* observability API
ctl == <<proc, configFile, modTime, lastModTime, reloads, lookup, maxSize, added,
         natsUp, connected, transients, apiLog, heap, returned, backlog, handler>>

vars == <<cfg, routes, stream, cons, msgChan, tasks, epTasks, successfulEvents,
          failedEvents, acks, naks, dispatches, posts, responses, httpLog, ctl>>

-----------------------------------------------------------------------------
(* Bounds of the model *)

\* the largest max_deliveries a configuration of the model sets
MaxDeliveriesBound == 2
\* the largest ack_wait_seconds a configuration of the model sets
AckWaitBound == 4
\* the number of POST /events requests a behaviour of the ingress makes
MaxRequests == 2
\* the number of ReloadConfig calls, and of rewrites of the config file, a
\* behaviour makes
MaxReloads == 2

\* the largest capacity of the store under test
StoreCap == 2

\* the most AddEvent and AddFailedEvent calls made on the store under test
MaxStoreCalls == 6

(* Program constants *)

\* http.Client.Timeout and the context deadline of a dispatch, in seconds
BackendTimeout == 3
\* capacity of Consumer.msgChan
MsgChanCap == 100
\* store.NewStore(10000)
StoreMaxSize == 10000

-----------------------------------------------------------------------------
(* JSON *)

Str(s) == [t |-> "str", s |-> s]
Num(s) == [t |-> "num", s |-> s]

\* decimal literal of a small positive integer (strconv of an int)
IntLit(k) == <<"1", "2", "3", "4", "5", "6", "7", "8", "9">>[k]

\* encoding/json decodes a number into interface{} as float64 and encodes a
\* float64 with the shortest literal that reads back to it: an integer above
\* 2^53 comes back as the nearest float64.
Float64Lit(s) == IF s = "9007199254740993" THEN "9007199254740992" ELSE s

\* json.Unmarshal into interface{} followed by json.Marshal, for one value
RoundTripValue(v) == IF v.t = "num" THEN Num(Float64Lit(v.s)) ELSE v

EmptyObj == [k \in {} |-> Str("")]

Obj(o) == [kind |-> "object", obj |-> o]
Garbage == [kind |-> "garbage", obj |-> EmptyObj]   \* not a JSON document
Null == [kind |-> "null", obj |-> EmptyObj]         \* the document `null`

\* f with key k set to v (added or replaced): eventMap[k] = v
Put(f, k, v) == [x \in (DOMAIN f) \cup {k} |-> IF x = k THEN v ELSE f[x]]

\* the order in which the keys of an object of the model appear in its document
KeyOrder == <<"Domain", "domain", "call_id", "state", "status", "billsec",
              "custom", "delivery_attempt", "using_forwarder">>

KeyRank(k) == IF \E i \in 1..Len(KeyOrder) : KeyOrder[i] = k
              THEN CHOOSE i \in 1..Len(KeyOrder) : KeyOrder[i] = k
              ELSE Len(KeyOrder) + 1

\* a decoder that matches keys to fields by their exact spelling
FoldExact(k) == k

\* strings.ToLower / the case folding encoding/json uses to match a key to a field
Fold(k) == IF k = "Domain" THEN "domain" ELSE k

\* json.Unmarshal of a payload into a struct whose fields are all strings
\* (tags `fields`): a key matches a field case-insensitively, the last
\* matching key of the document wins, a JSON null leaves the field alone, a
\* value of another type is an UnmarshalTypeError, unknown keys are skipped;
\* the document `null` leaves the whole struct alone.
\* [err, val]; val is what the struct holds afterwards.
DecodeStruct(p, fields) ==
    IF p.kind # "object"
    THEN [err |-> p.kind # "null", val |-> [f \in fields |-> ""]]
    ELSE LET o == p.obj
             hits(f) == {k \in DOMAIN o : Fold(k) = f /\ o[k].t # "null"}
             last(f) == CHOOSE k \in hits(f) :
                            \A k2 \in hits(f) : KeyRank(k2) <= KeyRank(k)
         IN  [err |-> \E f \in fields : \E k \in DOMAIN o :
                          Fold(k) = f /\ o[k].t \notin {"str", "null"},
              val |-> [f \in fields |->
                          IF hits(f) = {} \/ o[last(f)].t # "str"
                          THEN "" ELSE o[last(f)].s]]

-----------------------------------------------------------------------------
(* config *)

\* a validation that lets ack_wait_seconds equal the backend timeout
ValidateAtLeastTimeout(c) ==
    /\ c.port > 0
    /\ c.url # ""
    /\ c.streamName # ""
    /\ c.subjectPattern # ""
    /\ c.ackWait > 0
    /\ c.maxDeliveries > 0
    /\ ~(c.ackWait < 3)

\* Config.Validate: no error
Validate(c) ==
    /\ ~(c.port <= 0)
    /\ c.url # ""
    /\ c.streamName # ""
    /\ c.subjectPattern # ""
    /\ ~(c.ackWait <= 0)
    /\ ~(c.maxDeliveries <= 0)
    /\ ~(c.ackWait <= 3)

\* what a config file holds: nothing readable, no YAML, or a document with
\* its server and nats sections (conf) and its routes
File(kind, conf, rs) == [kind |-> kind, conf |-> conf, routes |-> rs]

\* a Load that does not validate what it has parsed
LoadUnvalidated(file) ==
    [err |-> IF file.kind = "unreadable" THEN "read"
             ELSE IF file.kind = "garbage" THEN "parse"
             ELSE "none",
     conf |-> file.conf,
     routes |-> file.routes]

\* config.Load: err is "none", "read", "parse" or "invalid"; conf and routes
\* are the Config returned when err is "none"
Load(file) ==
    [err |-> IF file.kind = "unreadable" THEN "read"
             ELSE IF file.kind = "garbage" THEN "parse"
             ELSE IF ~Validate(file.conf) THEN "invalid"
             ELSE "none",
     conf |-> file.conf,
     routes |-> file.routes]

Min(S) == CHOOSE x \in S : \A y \in S : x <= y

\* no route lookup has been started
NoLookup == [pc |-> "idle", domain |-> "", table |-> <<>>, i |-> 0,
             result |-> <<>>, from |-> 0]

\* Config.GetEndpoints: the endpoints of the first route of the domain, nil if none
GetEndpoints(rs, domain) ==
    LET idx == {i \in 1..Len(rs) : rs[i].domain = domain}
    IN  IF idx = {} THEN <<>> ELSE rs[Min(idx)].endpoints

-----------------------------------------------------------------------------
(* forwarder *)

\* the outcome of one endpoint call: an HTTP status code, or one of
TransportError == -1   \* client.Do returned an error before the deadline
DeadlineExceeded == -2 \* client.Do returned because the 3 s deadline passed
Canceled == -3         \* client.Do returned because the service context was cancelled

\* the status codes the endpoint at url answers with: between them the
\* endpoints of the model answer with the codes next to both ends of [200, 300)
StatusCodes(url) == IF url = "A" THEN {200, 300} ELSE {199, 299}

\* a status check that lets 300 through
EndpointOkUpTo300(res) ==
    /\ res # TransportError
    /\ res # DeadlineExceeded
    /\ ~(res < 200 \/ res > 300)

\* forwardToEndpoint: nil iff client.Do succeeded and the status is 2xx
EndpointOk(res) ==
    /\ res # TransportError
    /\ res # DeadlineExceeded
    /\ ~(res < 200 \/ res >= 300)

\* an enrichment that leaves a delivery_attempt the producer had set
addDeliveryAttemptIfAbsent(eventData, deliveryAttempt) ==
    IF eventData.kind # "object"
    THEN [err |-> TRUE, payload |-> eventData]
    ELSE LET eventMap == [k \in DOMAIN eventData.obj |->
                              RoundTripValue(eventData.obj[k])]
         IN  [err |-> FALSE,
              payload |-> IF "delivery_attempt" \in DOMAIN eventMap
                          THEN Obj(eventMap)
                          ELSE Obj(Put(eventMap, "delivery_attempt",
                                       Num(IntLit(deliveryAttempt))))]

\* Forwarder.addDeliveryAttemptToPayload: [err, payload]
addDeliveryAttemptToPayload(eventData, deliveryAttempt) ==
    IF eventData.kind # "object"
    THEN [err |-> TRUE, payload |-> eventData]
    ELSE LET eventMap == [k \in DOMAIN eventData.obj |->
                              RoundTripValue(eventData.obj[k])]
         IN  [err |-> FALSE,
              payload |-> Obj(Put(eventMap, "delivery_attempt",
                                  Num(IntLit(deliveryAttempt))))]

\* ForwardEvent lines 77-85: the enriched payload, or the original on error
EventPayload(eventData, deliveryAttempt) ==
    LET r == addDeliveryAttemptToPayload(eventData, deliveryAttempt)
    IN  IF r.err THEN eventData ELSE r.payload

-----------------------------------------------------------------------------
(* store *)

\* a trim that keeps the oldest entries
TrimNewest(list, size) ==
    IF size > 0 /\ Len(list) > size
    THEN SubSeq(list, 1, size)
    ELSE list

\* the tail append-and-trim of Store.AddEvent and Store.AddFailedEvent
Trim(list, size) ==
    IF size > 0 /\ Len(list) > size
    THEN SubSeq(list, Len(list) - size + 1, Len(list))
    ELSE list

\* Store.AddEvent: the list afterwards
AddEvent(list, event, domain, callID, deliveryAttempt, endpoints) ==
    Trim(Append(list, [event |-> event, domain |-> domain, callID |-> callID,
                       attempt |-> deliveryAttempt, endpoints |-> endpoints]),
         maxSize)

\* a retry flag that is still set on the last permitted attempt
WillRetryInclusive(deliveryAttempt, maxDeliveries) ==
    deliveryAttempt <= maxDeliveries

\* FailedEvent.WillRetry as Store.AddFailedEvent sets it
WillRetry(deliveryAttempt, maxDeliveries) == deliveryAttempt < maxDeliveries

\* Store.AddFailedEvent: the list afterwards
AddFailedEvent(list, event, domain, callID, deliveryAttempt, maxDeliveries, endpoints, errorMessages) ==
    Trim(Append(list, [event |-> event, domain |-> domain, callID |-> callID,
                       attempt |-> deliveryAttempt,
                       maxDeliveries |-> maxDeliveries,
                       endpoints |-> endpoints,
                       errorMessages |-> errorMessages,
                       willRetry |-> WillRetry(deliveryAttempt, maxDeliveries)]),
         maxSize)

-----------------------------------------------------------------------------
(* the inputs of the model *)

\* the route table of the configuration file: t1 has two endpoints, t2 has
\* one, t0 has a route with no endpoint, every other tenant has no route
InitRoutes == << [domain |-> "t1", endpoints |-> <<"A", "B">>],
                 [domain |-> "t2", endpoints |-> <<"A">>],
                 [domain |-> "t0", endpoints |-> <<>>] >>

\* the payloads published to the stream
StreamPayloads ==
    { Obj([k \in {"domain", "call_id", "custom", "delivery_attempt"} |->
              IF k = "domain" THEN Str("t1")
              ELSE IF k = "call_id" THEN Str("c1")
              ELSE IF k = "custom" THEN Num("9007199254740993")
              ELSE Num("7")]),
      Obj([k \in {"Domain", "call_id"} |->
              IF k = "Domain" THEN Str("t2") ELSE Str("c4")]),
      Obj([k \in {"domain", "call_id"} |->
              IF k = "domain" THEN Str("zzz") ELSE Str("c2")]),
      Obj([k \in {"domain"} |-> Str("t0")]),
      Obj([k \in {"call_id"} |-> Str("c3")]),
      Obj([k \in {"domain"} |-> Num("5")]),
      Garbage }

\* the configurations config.Load accepts
Configs ==
    {c \in [port : {8080}, url : {"nats://localhost:4222"},
            streamName : {"call-signals"}, subjectPattern : {"call.signal.*"},
            maxDeliveries : 1..MaxDeliveriesBound, ackWait : 1..AckWaitBound] :
        Validate(c)}

-----------------------------------------------------------------------------
(* the stream and its durable consumer (NewConsumer: explicit ack, AckWait, MaxDeliver) *)

Seqs == 1..Len(stream)

\* a server that redelivers without waiting for AckWait
DeliverableAtOnce(m) ==
    \/ cons[m].state = "new"
    \/ /\ cons[m].state \in {"nakked", "outstanding"}
       /\ cons[m].numDelivered < cfg.maxDeliveries

\* a server that makes one delivery more than MaxDeliver
DeliverableOnceMore(m) ==
    \/ cons[m].state = "new"
    \/ /\ cons[m].state = "nakked"
       /\ cons[m].numDelivered <= cfg.maxDeliveries
    \/ /\ cons[m].state = "outstanding"
       /\ cons[m].timer >= cfg.ackWait
       /\ cons[m].numDelivered <= cfg.maxDeliveries

\* the server has a delivery of message m to make
Deliverable(m) ==
    \/ cons[m].state = "new"
    \/ /\ cons[m].state = "nakked"
       /\ cons[m].numDelivered < cfg.maxDeliveries
    \/ /\ cons[m].state = "outstanding"
       /\ cons[m].timer >= cfg.ackWait
       /\ cons[m].numDelivered < cfg.maxDeliveries

\* the server has made MaxDeliver deliveries of m and none was acknowledged
Exhausted(m) ==
    /\ cons[m].numDelivered >= cfg.maxDeliveries
    /\ \/ cons[m].state = "nakked"
       \/ cons[m].state = "outstanding" /\ cons[m].timer >= cfg.ackWait

\* a publisher adds a message to the stream; the model follows one message
\* from its publication to its last delivery
Publish(p) ==
    /\ stream = <<>>
    /\ stream' = Append(stream, p)
    /\ cons' = Append(cons, [state |-> "new", numDelivered |-> 0, timer |-> 0])
    /\ UNCHANGED <<ctl, httpLog, cfg, routes, msgChan, tasks, epTasks, successfulEvents,
                   failedEvents, acks, naks, dispatches, posts, responses>>

\* the fetch loop of NewConsumer: sub.Fetch(1) returns the next delivery of m,
\* which goes to msgChan, or is dropped when msgChan is full (backlog is the
\* number of its slots that hold deliveries of other messages)
Fetch(m) ==
    /\ Deliverable(m)
    /\ cons' = [cons EXCEPT ![m] = [state |-> "outstanding",
                                    numDelivered |-> @.numDelivered + 1,
                                    timer |-> 0]]
    /\ msgChan' = IF Len(msgChan) + backlog < MsgChanCap
                  THEN Append(msgChan, [seq |-> m,
                                        attempt |-> cons[m].numDelivered + 1])
                  ELSE msgChan
    /\ UNCHANGED <<ctl, httpLog, cfg, routes, stream, tasks, epTasks, successfulEvents,
                   failedEvents, acks, naks, dispatches, posts, responses>>

\* the server stops delivering m: MaxDeliver deliveries were made
MaxDeliverReached(m) ==
    /\ Exhausted(m)
    /\ cons' = [cons EXCEPT ![m].state = "exhausted"]
    /\ UNCHANGED <<ctl, httpLog, cfg, routes, stream, msgChan, tasks, epTasks, successfulEvents,
                   failedEvents, acks, naks, dispatches, posts, responses>>

\* a server that takes no note of an acknowledgement
ConsAfterAckIgnored(c, m) == c

\* msg.Ack / msg.Nak as the server sees them
ConsAfterAck(c, m) ==
    [c EXCEPT ![m].state = IF @ = "outstanding" THEN "acked" ELSE @]
ConsAfterNak(c, m) ==
    [c EXCEPT ![m].state = IF @ = "outstanding" THEN "nakked" ELSE @]

-----------------------------------------------------------------------------
(* consumer service *)

\* a loop that runs processMessage itself and receives again when it returns
StartRecvInLoop ==
    /\ msgChan # <<>>
    /\ tasks = {}
    /\ msgChan' = Tail(msgChan)
    /\ tasks' = tasks \cup
          {[seq |-> Head(msgChan).seq, attempt |-> Head(msgChan).attempt,
            pc |-> "start", domain |-> "", callID |-> "", endpoints |-> <<>>,
            wg |-> 0, errChan |-> <<>>, elapsed |-> 0]}
    /\ UNCHANGED <<ctl, httpLog, cfg, routes, stream, cons, epTasks, successfulEvents,
                   failedEvents, acks, naks, dispatches, posts, responses>>

\* ConsumerService.Start: one message from msgChan, handed to its own goroutine
StartRecv ==
    /\ msgChan # <<>>
    /\ msgChan' = Tail(msgChan)
    /\ tasks' = tasks \cup
          {[seq |-> Head(msgChan).seq, attempt |-> Head(msgChan).attempt,
            pc |-> "start", domain |-> "", callID |-> "", endpoints |-> <<>>,
            wg |-> 0, errChan |-> <<>>, elapsed |-> 0]}
    /\ UNCHANGED <<ctl, httpLog, cfg, routes, stream, cons, epTasks, successfulEvents,
                   failedEvents, acks, naks, dispatches, posts, responses>>

\* a service that returns from a rejected payload without telling the server
ProcessInvalidSilent(t) ==
    LET event == DecodeStruct(stream[t.seq], {"call_id", "domain", "state", "status"})
    IN  /\ t \in tasks
        /\ t.pc = "start"
        /\ event.err \/ event.val["domain"] = ""
        /\ naks' = naks
        /\ cons' = cons
        /\ tasks' = tasks \ {t}
        /\ UNCHANGED <<ctl, httpLog, cfg, routes, stream, msgChan, epTasks, successfulEvents,
                       failedEvents, acks, dispatches, posts, responses>>

\* processMessage up to the call of ForwardEvent: the payload is rejected
ProcessInvalid(t) ==
    LET event == DecodeStruct(stream[t.seq], {"call_id", "domain", "state", "status"})
    IN  /\ t \in tasks
        /\ t.pc = "start"
        /\ event.err \/ event.val["domain"] = ""
        /\ naks' = naks \cup {[seq |-> t.seq, attempt |-> t.attempt]}
        /\ cons' = ConsAfterNak(cons, t.seq)
        /\ tasks' = tasks \ {t}
        /\ UNCHANGED <<ctl, httpLog, cfg, routes, stream, msgChan, epTasks, successfulEvents,
                       failedEvents, acks, dispatches, posts, responses>>

\* a dispatch that takes "no endpoint" for "nothing left to deliver" and
\* acknowledges
ProcessNoRouteAcking(t) ==
    LET event == DecodeStruct(stream[t.seq], {"call_id", "domain", "state", "status"})
        domain == event.val["domain"]
        endpoints == GetEndpoints(routes, domain)
    IN  /\ t \in tasks
        /\ t.pc = "start"
        /\ ~event.err /\ domain # ""
        /\ Len(endpoints) = 0
        /\ dispatches' = dispatches \cup
              {[seq |-> t.seq, attempt |-> t.attempt, domain |-> domain,
                endpoints |-> endpoints, epoch |-> Len(reloads)]}
        /\ acks' = acks \cup {[seq |-> t.seq, attempt |-> t.attempt]}
        /\ cons' = ConsAfterAck(cons, t.seq)
        /\ tasks' = tasks \ {t}
        /\ UNCHANGED <<ctl, httpLog, cfg, routes, stream, msgChan, epTasks, successfulEvents,
                       failedEvents, naks, posts, responses>>

\* a dispatch that stores the "no endpoint" failure like any other failure
ProcessNoRouteRecording(t) ==
    LET event == DecodeStruct(stream[t.seq], {"call_id", "domain", "state", "status"})
        domain == event.val["domain"]
        endpoints == GetEndpoints(routes, domain)
    IN  /\ t \in tasks
        /\ t.pc = "start"
        /\ ~event.err /\ domain # ""
        /\ Len(endpoints) = 0
        /\ dispatches' = dispatches \cup
              {[seq |-> t.seq, attempt |-> t.attempt, domain |-> domain,
                endpoints |-> endpoints, epoch |-> Len(reloads)]}
        /\ failedEvents' = AddFailedEvent(failedEvents, stream[t.seq], domain, "",
                                          t.attempt, cfg.maxDeliveries, endpoints,
                                          <<[url |-> "", res |-> TransportError]>>)
        /\ tasks' = tasks \ {t}
        /\ UNCHANGED <<ctl, httpLog, cfg, routes, stream, cons, msgChan, epTasks, successfulEvents,
                       acks, naks, posts, responses>>

\* processMessage calls ForwardEvent, which finds no endpoint and returns an
\* error; processMessage returns without Ack or Nak
ProcessNoRoute(t) ==
    LET event == DecodeStruct(stream[t.seq], {"call_id", "domain", "state", "status"})
        domain == event.val["domain"]
        endpoints == GetEndpoints(routes, domain)
    IN  /\ t \in tasks
        /\ t.pc = "start"
        /\ ~event.err /\ domain # ""
        /\ Len(endpoints) = 0
        /\ dispatches' = dispatches \cup
              {[seq |-> t.seq, attempt |-> t.attempt, domain |-> domain,
                endpoints |-> endpoints, epoch |-> Len(reloads)]}
        /\ tasks' = tasks \ {t}
        /\ UNCHANGED <<ctl, httpLog, cfg, routes, stream, cons, msgChan, epTasks, successfulEvents,
                       failedEvents, acks, naks, posts, responses>>

\* a ForwardEvent that resolves the tenant in the route table of startup
ProcessForwardStartupTable(t) ==
    LET event == DecodeStruct(stream[t.seq], {"call_id", "domain", "state", "status"})
        domain == event.val["domain"]
        endpoints == GetEndpoints(InitRoutes, domain)
        callID == DecodeStruct(stream[t.seq], {"call_id", "state", "status"}).val["call_id"]
    IN  /\ t \in tasks
        /\ t.pc = "start"
        /\ ~event.err /\ domain # ""
        /\ Len(endpoints) > 0
        /\ dispatches' = dispatches \cup
              {[seq |-> t.seq, attempt |-> t.attempt, domain |-> domain,
                endpoints |-> endpoints, epoch |-> Len(reloads)]}
        /\ tasks' = (tasks \ {t}) \cup
              {[t EXCEPT !.pc = "forwarding", !.domain = domain, !.callID = callID,
                         !.endpoints = endpoints, !.wg = Len(endpoints)]}
        /\ epTasks' = epTasks \cup
              {[seq |-> t.seq, attempt |-> t.attempt, idx |-> i,
                url |-> endpoints[i], st |-> "spawned"] : i \in 1..Len(endpoints)}
        /\ UNCHANGED <<ctl, httpLog, cfg, routes, stream, cons, msgChan, successfulEvents,
                       failedEvents, acks, naks, posts, responses>>

\* processMessage calls ForwardEvent, which spawns one goroutine per endpoint
\* and waits for them (wg.Wait)
ProcessForward(t) ==
    LET event == DecodeStruct(stream[t.seq], {"call_id", "domain", "state", "status"})
        domain == event.val["domain"]
        endpoints == GetEndpoints(routes, domain)
        callID == DecodeStruct(stream[t.seq], {"call_id", "state", "status"}).val["call_id"]
    IN  /\ t \in tasks
        /\ t.pc = "start"
        /\ ~event.err /\ domain # ""
        /\ Len(endpoints) > 0
        /\ dispatches' = dispatches \cup
              {[seq |-> t.seq, attempt |-> t.attempt, domain |-> domain,
                endpoints |-> endpoints, epoch |-> Len(reloads)]}
        /\ tasks' = (tasks \ {t}) \cup
              {[t EXCEPT !.pc = "forwarding", !.domain = domain, !.callID = callID,
                         !.endpoints = endpoints, !.wg = Len(endpoints)]}
        /\ epTasks' = epTasks \cup
              {[seq |-> t.seq, attempt |-> t.attempt, idx |-> i,
                url |-> endpoints[i], st |-> "spawned"] : i \in 1..Len(endpoints)}
        /\ UNCHANGED <<ctl, httpLog, cfg, routes, stream, cons, msgChan, successfulEvents,
                       failedEvents, acks, naks, posts, responses>>

\* the ForwardEvent call an endpoint goroutine belongs to
Parent(e) == CHOOSE t \in tasks : t.seq = e.seq /\ t.attempt = e.attempt

HasParent(e) == \E t \in tasks : t.seq = e.seq /\ t.attempt = e.attempt

\* forwardToEndpoint: the request is built and client.Do sends it
EndpointSend(e) ==
    /\ e \in epTasks
    /\ e.st = "spawned"
    /\ epTasks' = (epTasks \ {e}) \cup {[e EXCEPT !.st = "inflight"]}
    /\ posts' = posts \cup
          {[seq |-> e.seq, attempt |-> e.attempt, idx |-> e.idx, url |-> e.url,
            body |-> EventPayload(stream[e.seq], e.attempt)]}
    /\ UNCHANGED <<ctl, httpLog, cfg, routes, stream, cons, msgChan, tasks, successfulEvents,
                   failedEvents, acks, naks, dispatches, responses>>

\* a goroutine whose failure makes the goroutines not yet started give up
EndpointDoneCancelling(e, res) ==
    LET t == Parent(e)
        siblings == IF EndpointOk(res) THEN {}
                    ELSE {s \in epTasks : /\ s.seq = e.seq
                                          /\ s.attempt = e.attempt
                                          /\ s # e
                                          /\ s.st = "spawned"}
    IN  /\ responses' = responses \cup
              {[seq |-> e.seq, attempt |-> e.attempt, idx |-> e.idx,
                url |-> e.url, res |-> res]}
        /\ epTasks' = epTasks \ ({e} \cup siblings)
        /\ tasks' = (tasks \ {t}) \cup
              {[t EXCEPT !.wg = @ - 1 - Cardinality(siblings),
                         !.errChan = IF EndpointOk(res) THEN @
                                     ELSE Append(@, [url |-> e.url, res |-> res])]}
        /\ UNCHANGED <<ctl, httpLog, cfg, routes, stream, cons, msgChan, successfulEvents,
                       failedEvents, acks, naks, dispatches, posts>>

\* a result channel with room for all endpoints but one
ErrChanOneShort(endpoints) == Len(endpoints) - 1

\* ForwardEvent line 89: errChan := make(chan error, len(endpoints))
ErrChanCap(endpoints) == Len(endpoints)

\* the goroutine of ForwardEvent lines 93-98, once forwardToEndpoint has
\* returned with outcome res: an error goes to errChan, then wg.Done; the
\* send waits while errChan is full (nothing receives before wg.Wait returns)
EndpointDone(e, res) ==
    LET t == Parent(e)
    IN  /\ EndpointOk(res) \/ Len(t.errChan) < ErrChanCap(t.endpoints)
        /\ responses' = responses \cup
              {[seq |-> e.seq, attempt |-> e.attempt, idx |-> e.idx,
                url |-> e.url, res |-> res]}
        /\ epTasks' = epTasks \ {e}
        /\ tasks' = (tasks \ {t}) \cup
              {[t EXCEPT !.wg = @ - 1,
                         !.errChan = IF EndpointOk(res) THEN @
                                     ELSE Append(@, [url |-> e.url, res |-> res])]}
        /\ UNCHANGED <<ctl, httpLog, cfg, routes, stream, cons, msgChan, successfulEvents,
                       failedEvents, acks, naks, dispatches, posts>>

\* the endpoint answers before the deadline
EndpointRespond(e, code) ==
    /\ e \in epTasks
    /\ e.st = "inflight"
    /\ HasParent(e)
    /\ Parent(e).elapsed < BackendTimeout
    /\ EndpointDone(e, code)

\* client.Do fails before the deadline (connection refused, reset, ...)
EndpointTransportError(e) ==
    /\ e \in epTasks
    /\ e.st = "inflight"
    /\ HasParent(e)
    /\ Parent(e).elapsed < BackendTimeout
    /\ EndpointDone(e, TransportError)

\* the 3 s deadline passes with the request outstanding
EndpointTimeout(e) ==
    /\ e \in epTasks
    /\ e.st = "inflight"
    /\ HasParent(e)
    /\ Parent(e).elapsed >= BackendTimeout
    /\ EndpointDone(e, DeadlineExceeded)

\* a wait that returns with one goroutine still running
JoinReadyOneEarly(t) == t.wg <= 1

\* wg.Wait has returned
JoinReady(t) == t.wg = 0

\* a failure that is logged and returned but not stored
JoinFailureUnrecorded(t) ==
    /\ t \in tasks
    /\ t.pc = "forwarding"
    /\ JoinReady(t)
    /\ Len(t.errChan) > 0
    /\ failedEvents' = failedEvents
    /\ tasks' = tasks \ {t}
    /\ UNCHANGED <<ctl, httpLog, cfg, routes, stream, cons, msgChan, epTasks, successfulEvents,
                   acks, naks, dispatches, posts, responses>>

\* a failure stored with the endpoints the route table holds when the
\* dispatch returns
JoinFailureRereading(t) ==
    /\ t \in tasks
    /\ t.pc = "forwarding"
    /\ JoinReady(t)
    /\ Len(t.errChan) > 0
    /\ failedEvents' = AddFailedEvent(failedEvents, stream[t.seq], t.domain,
                                      t.callID, t.attempt, cfg.maxDeliveries,
                                      GetEndpoints(routes, t.domain), t.errChan)
    /\ tasks' = tasks \ {t}
    /\ UNCHANGED <<ctl, httpLog, cfg, routes, stream, cons, msgChan, epTasks, successfulEvents,
                   acks, naks, dispatches, posts, responses>>

\* ForwardEvent lines 101-132 and processMessage lines 135-154: some endpoint
\* failed; the failure is stored and the message is left unacknowledged
JoinFailure(t) ==
    /\ t \in tasks
    /\ t.pc = "forwarding"
    /\ JoinReady(t)
    /\ Len(t.errChan) > 0
    /\ failedEvents' = AddFailedEvent(failedEvents, stream[t.seq], t.domain,
                                      t.callID, t.attempt, cfg.maxDeliveries,
                                      t.endpoints, t.errChan)
    /\ tasks' = tasks \ {t}
    /\ UNCHANGED <<ctl, httpLog, cfg, routes, stream, cons, msgChan, epTasks, successfulEvents,
                   acks, naks, dispatches, posts, responses>>

\* ForwardEvent lines 101-110, 134-148 and processMessage lines 156-164: no
\* endpoint failed; the success is stored and the message acknowledged
JoinSuccess(t) ==
    /\ t \in tasks
    /\ t.pc = "forwarding"
    /\ JoinReady(t)
    /\ Len(t.errChan) = 0
    /\ successfulEvents' = AddEvent(successfulEvents, stream[t.seq], t.domain,
                                    t.callID, t.attempt, t.endpoints)
    /\ acks' = acks \cup {[seq |-> t.seq, attempt |-> t.attempt]}
    /\ cons' = ConsAfterAck(cons, t.seq)
    /\ tasks' = tasks \ {t}
    /\ UNCHANGED <<ctl, httpLog, cfg, routes, stream, msgChan, epTasks, failedEvents,
                   naks, dispatches, posts, responses>>

-----------------------------------------------------------------------------
(* time *)

\* a step of the service or of the server is due now
Urgent ==
    \/ msgChan # <<>>
    \/ \E t \in tasks : t.pc = "start" \/ JoinReady(t)
    \/ \E e \in epTasks : e.st = "spawned"
    \/ \E e \in epTasks : e.st = "inflight" /\ HasParent(e)
                          /\ Parent(e).elapsed >= BackendTimeout
    \/ \E m \in Seqs : Deliverable(m) \/ Exhausted(m)

\* one second passes
Tick ==
    /\ ~Urgent
    /\ \/ tasks # {}
       \/ \E m \in Seqs : cons[m].state = "outstanding"
    /\ tasks' = {[t EXCEPT !.elapsed = @ + 1] : t \in tasks}
    /\ cons' = [m \in Seqs |->
                   IF cons[m].state = "outstanding"
                   THEN [cons[m] EXCEPT !.timer = @ + 1]
                   ELSE cons[m]]
    /\ UNCHANGED <<ctl, httpLog, cfg, routes, stream, msgChan, epTasks, successfulEvents,
                   failedEvents, acks, naks, dispatches, posts, responses>>

-----------------------------------------------------------------------------
(* the delivery pipeline *)

Init ==
    /\ cfg \in Configs
    /\ routes = InitRoutes
    /\ stream = <<>>
    /\ cons = <<>>
    /\ msgChan = <<>>
    /\ tasks = {}
    /\ epTasks = {}
    /\ successfulEvents = <<>>
    /\ failedEvents = <<>>
    /\ acks = {}
    /\ naks = {}
    /\ dispatches = {}
    /\ posts = {}
    /\ responses = {}
    /\ httpLog = <<>>
    /\ proc = "running"
    /\ configFile = File("yaml", cfg, InitRoutes)
    /\ modTime = 0
    /\ lastModTime = 0
    /\ reloads = <<>>
    /\ lookup = NoLookup
    /\ maxSize = StoreMaxSize
    /\ added = <<>>
    /\ natsUp = TRUE
    /\ connected = TRUE
    /\ transients = {}
    /\ apiLog = <<>>
    /\ heap = <<>>
    /\ returned = NothingReturned
    /\ backlog = 0
    /\ handler = StartupHandler

Next ==
    \/ \E p \in StreamPayloads : Publish(p)
    \/ \E m \in Seqs : Fetch(m)
    \/ \E m \in Seqs : MaxDeliverReached(m)
    \/ StartRecv
    \/ \E t \in tasks : ProcessInvalid(t)
    \/ \E t \in tasks : ProcessNoRoute(t)
    \/ \E t \in tasks : ProcessForward(t)
    \/ \E e \in epTasks : EndpointSend(e)
    \/ \E e \in epTasks : \E code \in StatusCodes(e.url) : EndpointRespond(e, code)
    \/ \E e \in epTasks : EndpointTransportError(e)
    \/ \E e \in epTasks : EndpointTimeout(e)
    \/ \E t \in tasks : JoinFailure(t)
    \/ \E t \in tasks : JoinSuccess(t)
    \/ Tick

Spec == Init /\ [][Next]_vars

\* time passes and every goroutine and the server get to run
FairSpec == Spec /\ WF_vars(Next)

-----------------------------------------------------------------------------
(* ingress: POST /events *)

\* the json tags of http.Event
EventFields ==
    {"actual_hotline", "billsec", "call_id", "crm_contact_id", "direction",
     "domain", "duration", "from_number", "hotline", "network", "provider",
     "receive_dest", "sip_call_id", "sip_hangup_disposition", "state", "status",
     "time_ended", "time_started", "to_number"}

\* json.Marshal of an http.Event: every field of the struct, as a string
MarshalEvent(event) == Obj([f \in EventFields |-> Str(event[f])])

\* the bodies producers send
RequestBodies ==
    { Obj([k \in {"domain", "call_id", "state"} |->
              IF k = "domain" THEN Str("t1")
              ELSE IF k = "call_id" THEN Str("c1") ELSE Str("ringing")]),
      Obj([k \in {"domain", "custom"} |->
              IF k = "domain" THEN Str("t1") ELSE Str("x")]),
      Obj([k \in {"domain", "custom"} |->
              IF k = "domain" THEN Str("t1") ELSE Num("5")]),
      Obj([k \in {"domain", "billsec"} |->
              IF k = "domain" THEN Str("t1") ELSE Num("12")]),
      Obj([k \in {"Domain", "call_id"} |->
              IF k = "Domain" THEN Str("t2") ELSE Str("c4")]),
      Obj([k \in {"Domain", "domain"} |->
              IF k = "Domain" THEN Str("t2") ELSE Str("t1")]),
      Obj([k \in {"domain"} |-> Str("zzz")]),
      Obj([k \in {"domain"} |-> Str("")]),
      Obj([k \in {"domain"} |-> Num("5")]),
      Obj([k \in {"call_id"} |-> Str("c3")]),
      Obj([k \in {"call_id", "billsec"} |->
              IF k = "call_id" THEN Str("c3") ELSE Num("12")]),
      Null,
      Garbage }

\* what HandleEvents answers, how its call of Publisher.Publish ended ("none"
\* when it made none) and, when the stream took the message, its sequence
Exchange(method, body, status, text, publish, seq) ==
    [method |-> method, body |-> body, status |-> status, text |-> text,
     publish |-> publish, seq |-> seq]

\* a handler that answers accepted without waiting for what Publish returns
HandleEventsFireAndForget(method, body, publishOk) ==
    LET d == DecodeStruct(body, EventFields)
        event == d.val
        reject(status, text) ==
            /\ httpLog' = Append(httpLog,
                                 Exchange(method, body, status, text, "none", 0))
            /\ UNCHANGED <<stream, cons, maxSize, added,
                   natsUp, connected, transients, apiLog, heap, returned, backlog, handler>>
    IN  /\ Len(httpLog) < MaxRequests
        /\ IF method # "POST"
           THEN reject(405, "Method not allowed")
           ELSE IF d.err
           THEN reject(400, "Invalid JSON payload")
           ELSE IF event["domain"] = ""
           THEN reject(400, "domain is required")
           ELSE IF ~publishOk
           THEN /\ httpLog' = Append(httpLog,
                                     Exchange(method, body, 202,
                                              "{\"status\":\"accepted\"}",
                                              "failed", 0))
                /\ UNCHANGED <<stream, cons, maxSize, added,
                   natsUp, connected, transients, apiLog, heap, returned, backlog, handler>>
           ELSE /\ stream' = Append(stream, MarshalEvent(event))
                /\ cons' = Append(cons, [state |-> "new", numDelivered |-> 0,
                                         timer |-> 0])
                /\ httpLog' = Append(httpLog,
                                     Exchange(method, body, 202,
                                              "{\"status\":\"accepted\"}",
                                              "ok", Len(stream) + 1))
        /\ UNCHANGED <<ctl, cfg, routes, msgChan, tasks, epTasks, successfulEvents,
                       failedEvents, acks, naks, dispatches, posts, responses>>

\* a handler whose Publish carries a message id taken from the payload, so
\* that the server drops a payload it holds already and reports the entry
\* it has
HandleEventsDeduplicating(method, body, publishOk) ==
    LET d == DecodeStruct(body, EventFields)
        event == d.val
        reject(status, text, publish) ==
            /\ httpLog' = Append(httpLog,
                                 Exchange(method, body, status, text, publish, 0))
            /\ UNCHANGED <<stream, cons, maxSize, added,
                   natsUp, connected, transients, apiLog, heap, returned, backlog, handler>>
        held == {m \in Seqs : stream[m] = MarshalEvent(event)}
    IN  /\ Len(httpLog) < MaxRequests
        /\ IF method # "POST"
           THEN reject(405, "Method not allowed", "none")
           ELSE IF d.err
           THEN reject(400, "Invalid JSON payload", "none")
           ELSE IF event["domain"] = ""
           THEN reject(400, "domain is required", "none")
           ELSE IF ~publishOk
           THEN reject(500, "Internal server error", "failed")
           ELSE IF held # {}
           THEN /\ httpLog' = Append(httpLog,
                                     Exchange(method, body, 202,
                                              "{\"status\":\"accepted\"}",
                                              "ok", Min(held)))
                /\ UNCHANGED <<stream, cons, maxSize, added,
                   natsUp, connected, transients, apiLog, heap, returned, backlog, handler>>
           ELSE /\ stream' = Append(stream, MarshalEvent(event))
                /\ cons' = Append(cons, [state |-> "new", numDelivered |-> 0,
                                         timer |-> 0])
                /\ httpLog' = Append(httpLog,
                                     Exchange(method, body, 202,
                                              "{\"status\":\"accepted\"}",
                                              "ok", Len(stream) + 1))
        /\ UNCHANGED <<ctl, cfg, routes, msgChan, tasks, epTasks, successfulEvents,
                       failedEvents, acks, naks, dispatches, posts, responses>>

\* Handler.HandleEvents; publishOk is whether Publisher.Publish succeeds
HandleEvents(method, body, publishOk) ==
    LET d == DecodeStruct(body, EventFields)
        event == d.val
        reject(status, text, publish) ==
            /\ httpLog' = Append(httpLog,
                                 Exchange(method, body, status, text, publish, 0))
            /\ UNCHANGED <<stream, cons, maxSize, added,
                   natsUp, connected, transients, apiLog, heap, returned, backlog, handler>>
    IN  /\ Len(httpLog) < MaxRequests
        /\ IF method # "POST"
           THEN reject(405, "Method not allowed", "none")
           ELSE IF d.err
           THEN reject(400, "Invalid JSON payload", "none")
           ELSE IF event["domain"] = ""
           THEN reject(400, "domain is required", "none")
           ELSE IF ~publishOk
           THEN reject(500, "Internal server error", "failed")
           ELSE /\ stream' = Append(stream, MarshalEvent(event))
                /\ cons' = Append(cons, [state |-> "new", numDelivered |-> 0,
                                         timer |-> 0])
                /\ httpLog' = Append(httpLog,
                                     Exchange(method, body, 202,
                                              "{\"status\":\"accepted\"}",
                                              "ok", Len(stream) + 1))
        /\ UNCHANGED <<ctl, cfg, routes, msgChan, tasks, epTasks, successfulEvents,
                       failedEvents, acks, naks, dispatches, posts, responses>>

NextIngress ==
    \E method \in {"POST", "GET"} : \E body \in RequestBodies :
        \E publishOk \in BOOLEAN : HandleEvents(method, body, publishOk)

SpecIngress == Init /\ [][NextIngress]_vars

-----------------------------------------------------------------------------
(* startup: main loads the configuration *)

\* the sections a config file of the model may hold, valid or not
FileConfs ==
    [port : {0, 8080}, url : {"", "nats://localhost:4222"},
     streamName : {"", "call-signals"}, subjectPattern : {"", "call.signal.*"},
     maxDeliveries : 0..MaxDeliveriesBound, ackWait : 0..AckWaitBound]

\* the config files the service may be started with
StartupFiles ==
    {File("yaml", c, InitRoutes) : c \in FileConfs}
        \cup {File(k, CHOOSE c \in FileConfs : TRUE, <<>>) : k \in {"unreadable", "garbage"}}

\* the Config of a process that has loaded none
NoConfig == CHOOSE c \in FileConfs : c.port = 0 /\ c.url = "" /\ c.streamName = ""
                                     /\ c.subjectPattern = ""
                                     /\ c.maxDeliveries = 0 /\ c.ackWait = 0

InitStartup ==
    /\ proc = "boot"
    /\ configFile \in StartupFiles
    /\ cfg = NoConfig
    /\ routes = <<>>
    /\ stream = <<>>
    /\ cons = <<>>
    /\ msgChan = <<>>
    /\ tasks = {}
    /\ epTasks = {}
    /\ successfulEvents = <<>>
    /\ failedEvents = <<>>
    /\ acks = {}
    /\ naks = {}
    /\ dispatches = {}
    /\ posts = {}
    /\ responses = {}
    /\ httpLog = <<>>
    /\ modTime = 0
    /\ lastModTime = 0
    /\ reloads = <<>>
    /\ lookup = NoLookup
    /\ maxSize = StoreMaxSize
    /\ added = <<>>
    /\ natsUp = TRUE
    /\ connected = TRUE
    /\ transients = {}
    /\ apiLog = <<>>
    /\ heap = <<>>
    /\ returned = NothingReturned
    /\ backlog = 0
    /\ handler = StartupHandler

\* main: config.Load, and logger.Fatal when it fails
Main ==
    LET r == Load(configFile)
    IN  /\ proc = "boot"
        /\ IF r.err # "none"
           THEN /\ proc' = "exited"
                /\ UNCHANGED <<cfg, routes>>
           ELSE /\ proc' = "running"
                /\ cfg' = r.conf
                /\ routes' = r.routes
        /\ UNCHANGED <<stream, cons, msgChan, tasks, epTasks, successfulEvents,
                       failedEvents, acks, naks, dispatches, posts, responses,
                       httpLog, configFile, modTime, lastModTime, reloads, lookup, maxSize, added,
                   natsUp, connected, transients, apiLog, heap, returned, backlog, handler>>

NextStartup == Main

SpecStartup == InitStartup /\ [][NextStartup]_vars

-----------------------------------------------------------------------------
(* hot reload: the config file is rewritten, the watcher and            *)
(* POST /api/config/reload call Forwarder.ReloadConfig, lookups go on   *)

\* a route table that has endpoint B in the place of A for tenant t2 and the
\* routes in another order
RoutesB == << [domain |-> "t2", endpoints |-> <<"B">>],
              [domain |-> "t1", endpoints |-> <<"A", "B">>] >>

\* a route table without tenant t2
RoutesNoT2 == << [domain |-> "t1", endpoints |-> <<"B", "A">>] >>

\* the contents the config file is rewritten to while the service runs with
\* configuration c: new routes, new routes together with other server and nats
\* settings, a file that is not valid, one that is no YAML, one that cannot
\* be read
ReloadFiles(c) ==
    { File("yaml", c, RoutesNoT2),
      File("yaml", [c EXCEPT !.maxDeliveries = @ + 1, !.ackWait = @ + 1,
                             !.port = 9090, !.streamName = "other",
                             !.subjectPattern = "other.*"], RoutesB),
      File("yaml", [c EXCEPT !.ackWait = 3], RoutesB),
      File("garbage", c, <<>>),
      File("unreadable", c, <<>>) }

\* a reload that installs the routes of the file before it validates
ReloadConfigUnvalidated(rs, file) ==
    LET r == Load(file)
    IN  [err |-> r.err,
         routes |-> IF file.kind = "yaml" THEN r.routes ELSE rs]

\* Forwarder.ReloadConfig(path) with the live routes rs: the file is loaded
\* and validated; on success the routes of the file become the live route
\* table in one step, and nothing else of the configuration changes; on
\* failure the error is returned and the live table stays.  [err, routes]
ReloadConfig(rs, file) ==
    LET r == Load(file)
    IN  [err |-> r.err,
         routes |-> IF r.err = "none" THEN r.routes ELSE rs]

\* the entry of the reload history for a call by `by` ("watcher" or "api"):
\* the file read, the error returned, the live route table and the server
\* and nats settings in effect before and after, the POSTs in flight at that
\* moment, the HTTP status answered
Reloaded(by, r, status) ==
    [by |-> by, file |-> configFile, err |-> r.err, before |-> routes,
     after |-> r.routes, confBefore |-> cfg, confAfter |-> cfg',
     pending |-> {[seq |-> e.seq, attempt |-> e.attempt, idx |-> e.idx] :
                     e \in {x \in epTasks : x.st = "inflight"}},
     status |-> status]

\* somebody rewrites the config file
WriteFile(f) ==
    /\ proc = "running"
    /\ modTime < MaxReloads
    /\ f # configFile
    /\ configFile' = f
    /\ modTime' = modTime + 1
    /\ UNCHANGED <<cfg, routes, stream, cons, msgChan, tasks, epTasks,
                   successfulEvents, failedEvents, acks, naks, dispatches, posts,
                   responses, httpLog, proc, lastModTime, reloads, lookup, maxSize, added,
                   natsUp, connected, transients, apiLog, heap, returned, backlog, handler>>

\* a watcher whose reload puts every setting of the file in effect
WatcherPollWholeConfig ==
    LET r == ReloadConfig(routes, configFile)
    IN  /\ proc = "running"
        /\ Len(reloads) < MaxReloads
        /\ modTime > lastModTime
        /\ lastModTime' = modTime
        /\ routes' = r.routes
        /\ cfg' = IF r.err = "none" THEN configFile.conf ELSE cfg
        /\ reloads' = Append(reloads, Reloaded("watcher", r, 0))
        /\ UNCHANGED <<stream, cons, msgChan, tasks, epTasks,
                       successfulEvents, failedEvents, acks, naks, dispatches,
                       posts, responses, httpLog, proc, configFile, modTime, lookup, maxSize, added,
                   natsUp, connected, transients, apiLog, heap, returned, backlog, handler>>

\* a watcher that notes the new modification time and calls the reload but
\* whose reload leaves the live table as it was
WatcherPollKeepingTable ==
    LET r == ReloadConfig(routes, configFile)
    IN  /\ proc = "running"
        /\ Len(reloads) < MaxReloads
        /\ modTime > lastModTime
        /\ lastModTime' = modTime
        /\ routes' = routes
        /\ cfg' = cfg
        /\ reloads' = Append(reloads, Reloaded("watcher", r, 0))
        /\ UNCHANGED <<stream, cons, msgChan, tasks, epTasks,
                       successfulEvents, failedEvents, acks, naks, dispatches,
                       posts, responses, httpLog, proc, configFile, modTime, lookup, maxSize, added,
                   natsUp, connected, transients, apiLog, heap, returned, backlog, handler>>

\* watchConfigFile: a tick of the ticker finds the file modified and reloads
WatcherPoll ==
    LET r == ReloadConfig(routes, configFile)
    IN  /\ proc = "running"
        /\ Len(reloads) < MaxReloads
        /\ modTime > lastModTime
        /\ lastModTime' = modTime
        /\ routes' = r.routes
        /\ cfg' = cfg
        /\ reloads' = Append(reloads, Reloaded("watcher", r, 0))
        /\ UNCHANGED <<stream, cons, msgChan, tasks, epTasks,
                       successfulEvents, failedEvents, acks, naks, dispatches,
                       posts, responses, httpLog, proc, configFile, modTime, lookup, maxSize, added,
                   natsUp, connected, transients, apiLog, heap, returned, backlog, handler>>

\* Handler.HandleReloadConfig, for a POST
HandleReloadConfig ==
    LET r == ReloadConfig(routes, configFile)
    IN  /\ proc = "running"
        /\ Len(reloads) < MaxReloads
        /\ routes' = r.routes
        /\ cfg' = cfg
        /\ reloads' = Append(reloads,
                             Reloaded("api", r, IF r.err = "none" THEN 200 ELSE 500))
        /\ UNCHANGED <<stream, cons, msgChan, tasks, epTasks,
                       successfulEvents, failedEvents, acks, naks, dispatches,
                       posts, responses, httpLog, proc, configFile, modTime,
                       lastModTime, lookup, maxSize, added,
                   natsUp, connected, transients, apiLog, heap, returned, backlog, handler>>

\* ForwardEvent line 50: f.config is read and GetEndpoints starts to scan the
\* routes of that Config
LookupBegin(domain) ==
    /\ proc = "running"
    /\ lookup.pc = "idle"
    /\ lookup' = [pc |-> "scan", domain |-> domain, table |-> routes, i |-> 1,
                  result |-> <<>>, from |-> Len(reloads)]
    /\ UNCHANGED <<cfg, routes, stream, cons, msgChan, tasks, epTasks,
                   successfulEvents, failedEvents, acks, naks, dispatches, posts,
                   responses, httpLog, proc, configFile, modTime, lastModTime,
                   reloads, maxSize, added,
                   natsUp, connected, transients, apiLog, heap, returned, backlog, handler>>

\* a scan that reads each route from the live table instead of the Config
\* it started with
LookupStepLive ==
    /\ lookup.pc = "scan"
    /\ lookup' = IF lookup.i > Len(routes)
                 THEN [lookup EXCEPT !.pc = "done", !.result = <<>>]
                 ELSE IF routes[lookup.i].domain = lookup.domain
                 THEN [lookup EXCEPT !.pc = "done",
                                     !.result = routes[lookup.i].endpoints]
                 ELSE [lookup EXCEPT !.i = @ + 1]
    /\ UNCHANGED <<cfg, routes, stream, cons, msgChan, tasks, epTasks,
                   successfulEvents, failedEvents, acks, naks, dispatches, posts,
                   responses, httpLog, proc, configFile, modTime, lastModTime,
                   reloads, maxSize, added,
                   natsUp, connected, transients, apiLog, heap, returned, backlog, handler>>

\* Config.GetEndpoints: one turn of the loop over c.Routes, or its end
LookupStep ==
    /\ lookup.pc = "scan"
    /\ lookup' = IF lookup.i > Len(lookup.table)
                 THEN [lookup EXCEPT !.pc = "done", !.result = <<>>]
                 ELSE IF lookup.table[lookup.i].domain = lookup.domain
                 THEN [lookup EXCEPT !.pc = "done",
                                     !.result = lookup.table[lookup.i].endpoints]
                 ELSE [lookup EXCEPT !.i = @ + 1]
    /\ UNCHANGED <<cfg, routes, stream, cons, msgChan, tasks, epTasks,
                   successfulEvents, failedEvents, acks, naks, dispatches, posts,
                   responses, httpLog, proc, configFile, modTime, lastModTime,
                   reloads, maxSize, added,
                   natsUp, connected, transients, apiLog, heap, returned, backlog, handler>>

NextReload ==
    \/ \E f \in ReloadFiles(cfg) : WriteFile(f)
    \/ WatcherPoll
    \/ HandleReloadConfig
    \/ \E domain \in {"t1", "t2", "zzz"} : LookupBegin(domain)
    \/ LookupStep

SpecReload == Init /\ [][NextReload]_vars

-----------------------------------------------------------------------------
(* hot reload while events are forwarded *)

\* the event the forwarding follows: tenant t2, one endpoint at startup
HotPayloads ==
    { Obj([k \in {"Domain", "call_id"} |->
              IF k = "Domain" THEN Str("t2") ELSE Str("c4")]) }

\* the edits an operator makes to the file while the event is forwarded: the
\* n-th edit first swaps t2 from [A] to [B] and changes every other setting,
\* then drops t2, then breaks the file
HotFiles(c, n) ==
    IF n = 1
    THEN { File("yaml", [c EXCEPT !.maxDeliveries = @ + 1, !.ackWait = @ + 1,
                                  !.port = 9090, !.streamName = "other",
                                  !.subjectPattern = "other.*"], RoutesB) }
    ELSE IF n = 2
    THEN { File("yaml", c, RoutesNoT2) }
    ELSE { File("yaml", [c EXCEPT !.ackWait = 3], RoutesB) }

\* the endpoint the operator moves the tenant away from answers 500, the
\* other one 200; either may also leave the request unanswered until the
\* deadline
HotStatusCodes(url) == IF url = "A" THEN {500} ELSE {200}

NextHotReload ==
    \/ \E p \in HotPayloads : Publish(p)
    \/ \E m \in Seqs : Fetch(m)
    \/ \E m \in Seqs : MaxDeliverReached(m)
    \/ StartRecv
    \/ \E t \in tasks : ProcessNoRoute(t)
    \/ \E t \in tasks : ProcessForward(t)
    \/ \E e \in epTasks : EndpointSend(e)
    \/ \E e \in epTasks : \E code \in HotStatusCodes(e.url) : EndpointRespond(e, code)
    \/ \E e \in epTasks : EndpointTimeout(e)
    \/ \E t \in tasks : JoinFailure(t)
    \/ \E t \in tasks : JoinSuccess(t)
    \/ Tick
    \/ \E f \in HotFiles(cfg, modTime + 1) : WriteFile(f)
    \/ WatcherPoll
    \/ HandleReloadConfig

\* the service runs with the largest configuration of Configs
InitHotReload ==
    /\ Init
    /\ cfg.maxDeliveries = MaxDeliveriesBound
    /\ cfg.ackWait = AckWaitBound

SpecHotReload == InitHotReload /\ [][NextHotReload]_vars

-----------------------------------------------------------------------------
(* the file watcher while events are forwarded *)

\* the copies an operator puts back in place of the file: the startup file
\* and one with the routes of RoutesB
RestoreFiles(c) == { File("yaml", c, InitRoutes), File("yaml", c, RoutesB) }

\* the file is replaced by a copy that carries a modification time not
\* later than the one the file had (mv of a backup, cp -p): the content
\* changes, the time os.Stat reports does not advance
RestoreFile(f) ==
    /\ proc = "running"
    /\ f # configFile
    /\ configFile' = f
    /\ UNCHANGED <<cfg, routes, stream, cons, msgChan, tasks, epTasks,
                   successfulEvents, failedEvents, acks, naks, dispatches, posts,
                   responses, httpLog, proc, modTime, lastModTime, reloads,
                   lookup, maxSize, added, natsUp, connected, transients, apiLog, heap, returned, backlog, handler>>

\* the endpoints answer before the deadline of a dispatch
NextWatcher ==
    \/ \E p \in HotPayloads : Publish(p)
    \/ \E m \in Seqs : Fetch(m)
    \/ \E m \in Seqs : MaxDeliverReached(m)
    \/ StartRecv
    \/ \E t \in tasks : ProcessNoRoute(t)
    \/ \E t \in tasks : ProcessForward(t)
    \/ \E e \in epTasks : EndpointSend(e)
    \/ \E e \in epTasks : \E code \in HotStatusCodes(e.url) : EndpointRespond(e, code)
    \/ \E t \in tasks : JoinFailure(t)
    \/ \E t \in tasks : JoinSuccess(t)
    \/ Tick
    \/ \E f \in HotFiles(cfg, modTime + 1) : WriteFile(f)
    \/ \E f \in RestoreFiles(cfg) : RestoreFile(f)
    \/ WatcherPoll

\* the ticker of watchConfigFile fires every two seconds for as long as the
\* service runs
SpecWatcher == InitHotReload /\ [][NextWatcher]_vars /\ WF_vars(WatcherPoll)

-----------------------------------------------------------------------------
(* shutdown and restart while an event is forwarded *)

\* NewConsumer on a stream that holds the messages of c: DeleteConsumer
\* removes the durable with its position and its pending deliveries, and
\* AddConsumer with DeliverNewPolicy starts behind the last message of the
\* stream, so that none of them is delivered by the new durable: a message
\* not yet acknowledged or given up is skipped
NewConsumer(c) ==
    [m \in DOMAIN c |->
        IF c[m].state \in {"acked", "exhausted"}
        THEN c[m]
        ELSE [state |-> "skipped", numDelivered |-> 0, timer |-> 0]]

\* main on SIGINT or SIGTERM: consumerService.Stop cancels the service context
Stop ==
    /\ proc = "running"
    /\ proc' = "stopping"
    /\ UNCHANGED <<cfg, routes, stream, cons, msgChan, tasks, epTasks,
                   successfulEvents, failedEvents, acks, naks, dispatches, posts,
                   responses, httpLog, configFile, modTime, lastModTime, reloads,
                   lookup, maxSize, added,
                   natsUp, connected, transients, apiLog, heap, returned, backlog, handler>>

\* ConsumerService.Start takes the ctx.Done branch of its select and returns
StartReturn ==
    /\ proc = "stopping"
    /\ proc' = "stopped"
    /\ UNCHANGED <<cfg, routes, stream, cons, msgChan, tasks, epTasks,
                   successfulEvents, failedEvents, acks, naks, dispatches, posts,
                   responses, httpLog, configFile, modTime, lastModTime, reloads,
                   lookup, maxSize, added,
                   natsUp, connected, transients, apiLog, heap, returned, backlog, handler>>

\* forwardToEndpoint under a cancelled context: client.Do returns
\* context.Canceled, for a request not yet sent without sending it
EndpointCancelled(e) ==
    /\ proc \in {"stopping", "stopped"}
    /\ e \in epTasks
    /\ HasParent(e)
    /\ EndpointDone(e, Canceled)

\* main returns after its sleep and the server shutdown: the process is gone
\* with its channel, its goroutines and its store
Exit ==
    /\ proc = "stopped"
    /\ proc' = "down"
    /\ msgChan' = <<>>
    /\ tasks' = {}
    /\ epTasks' = {}
    /\ successfulEvents' = <<>>
    /\ failedEvents' = <<>>
    /\ UNCHANGED <<cfg, routes, stream, cons, acks, naks, dispatches, posts,
                   responses, httpLog, configFile, modTime, lastModTime, reloads,
                   lookup, maxSize, added,
                   natsUp, connected, transients, apiLog, heap, returned, backlog, handler>>

\* the service is started again: main builds the consumer with NewConsumer
Restart ==
    /\ proc = "down"
    /\ proc' = "running"
    /\ cons' = NewConsumer(cons)
    /\ UNCHANGED <<cfg, routes, stream, msgChan, tasks, epTasks,
                   successfulEvents, failedEvents, acks, naks, dispatches, posts,
                   responses, httpLog, configFile, modTime, lastModTime, reloads,
                   lookup, maxSize, added,
                   natsUp, connected, transients, apiLog, heap, returned, backlog, handler>>

\* the service context is cancelled and a request is still with client.Do
CancelDue == proc \in {"stopping", "stopped"} /\ epTasks # {}

NextShutdown ==
    \/ \E p \in HotPayloads : Publish(p)
    \/ proc # "down" /\ \E m \in Seqs : Fetch(m)
    \/ \E m \in Seqs : MaxDeliverReached(m)
    \/ proc \in {"running", "stopping"} /\ StartRecv
    \/ proc # "down" /\ \E t \in tasks : ProcessForward(t)
    \/ proc = "running" /\ \E e \in epTasks : EndpointSend(e)
    \/ \E e \in epTasks : \E code \in StatusCodes(e.url) : EndpointRespond(e, code)
    \/ proc = "running" /\ \E e \in epTasks : EndpointTimeout(e)
    \/ \E e \in epTasks : EndpointCancelled(e)
    \/ \E t \in tasks : JoinFailure(t)
    \/ \E t \in tasks : JoinSuccess(t)
    \/ ~CancelDue /\ Tick
    \/ Stop
    \/ StartReturn
    \/ Exit
    \/ Restart

SpecShutdown == Init /\ [][NextShutdown]_vars

-----------------------------------------------------------------------------
(* the event store on its own *)

\* the events handed to the store
StoreEvents ==
    { Obj([k \in {"call_id"} |-> Str("c1")]),
      Obj([k \in {"call_id"} |-> Str("c2")]) }

\* NewStore(maxSize) with a capacity of 1..StoreCap, nothing else running
InitStore ==
    /\ cfg \in Configs
    /\ routes = InitRoutes
    /\ stream = <<>>
    /\ cons = <<>>
    /\ msgChan = <<>>
    /\ tasks = {}
    /\ epTasks = {}
    /\ successfulEvents = <<>>
    /\ failedEvents = <<>>
    /\ acks = {}
    /\ naks = {}
    /\ dispatches = {}
    /\ posts = {}
    /\ responses = {}
    /\ httpLog = <<>>
    /\ proc = "running"
    /\ configFile = File("yaml", cfg, InitRoutes)
    /\ modTime = 0
    /\ lastModTime = 0
    /\ reloads = <<>>
    /\ lookup = NoLookup
    /\ maxSize \in 1..StoreCap
    /\ added = <<>>
    /\ natsUp = TRUE
    /\ connected = TRUE
    /\ transients = {}
    /\ apiLog = <<>>
    /\ heap = <<>>
    /\ returned = NothingReturned
    /\ backlog = 0
    /\ handler = StartupHandler

\* a call of Store.AddEvent
StoreAddEvent(event, deliveryAttempt) ==
    /\ Len(added) < MaxStoreCalls
    /\ successfulEvents' = AddEvent(successfulEvents, event, "t1", "c1",
                                    deliveryAttempt, <<"A">>)
    /\ added' = Append(added, [list |-> "successful", event |-> event,
                               attempt |-> deliveryAttempt])
    /\ UNCHANGED <<cfg, routes, stream, cons, msgChan, tasks, epTasks,
                   failedEvents, acks, naks, dispatches, posts, responses,
                   httpLog, proc, configFile, modTime, lastModTime, reloads,
                   lookup, maxSize,
                   natsUp, connected, transients, apiLog, heap, returned, backlog, handler>>

\* a call of Store.AddFailedEvent
StoreAddFailedEvent(event, deliveryAttempt) ==
    /\ Len(added) < MaxStoreCalls
    /\ failedEvents' = AddFailedEvent(failedEvents, event, "t1", "c1",
                                      deliveryAttempt, cfg.maxDeliveries, <<"A">>,
                                      <<[url |-> "A", res |-> 500]>>)
    /\ added' = Append(added, [list |-> "failed", event |-> event,
                               attempt |-> deliveryAttempt])
    /\ UNCHANGED <<cfg, routes, stream, cons, msgChan, tasks, epTasks,
                   successfulEvents, acks, naks, dispatches, posts, responses,
                   httpLog, proc, configFile, modTime, lastModTime, reloads,
                   lookup, maxSize,
                   natsUp, connected, transients, apiLog, heap, returned, backlog, handler>>

NextStore ==
    \/ \E event \in StoreEvents : StoreAddEvent(event, 1)
    \/ \E event \in StoreEvents : StoreAddFailedEvent(event, 1)

SpecStore == InitStore /\ [][NextStore]_vars

-----------------------------------------------------------------------------
(* the store and the callers of its getters *)

\* the Endpoints slice handed to the store with an event
StoredEndpoints == <<"A", "B">>

\* the tenant of an event handed to the store
StoreDomain(event) == IF event = Obj([k \in {"call_id"} |-> Str("c1")]) THEN "t1" ELSE "t2"

\* what a caller overwrites an entry of its collection with
ZeroEntry == [event |-> Null, domain |-> "", callID |-> "", attempt |-> 0, endpoints |-> 0]

\* a store of capacity 1..StoreCap, nothing else running
InitCopies ==
    /\ InitStore
    /\ cfg.maxDeliveries = MaxDeliveriesBound
    /\ cfg.ackWait = AckWaitBound

\* Store.AddEvent as Go runs it: the entry keeps the slice header of the
\* caller's endpoints, that is the address of its backing array, not a copy
\* of the array
StoreAddEventSlice(event) ==
    /\ Len(heap) <= StoreCap
    /\ heap' = Append(heap, StoredEndpoints)
    /\ successfulEvents' = AddEvent(successfulEvents, event, StoreDomain(event),
                                    "c1", 1, Len(heap) + 1)
    /\ added' = Append(added, [list |-> "successful", event |-> event,
                               attempt |-> 1, endpoints |-> Len(heap) + 1])
    /\ UNCHANGED <<cfg, routes, stream, cons, msgChan, tasks, epTasks,
                   failedEvents, acks, naks, dispatches, posts, responses,
                   httpLog, proc, configFile, modTime, lastModTime, reloads,
                   lookup, maxSize, natsUp, connected, transients, apiLog,
                   returned, backlog, handler>>

\* a getter that returns the list of the store itself
GetEventsNoCopy ==
    /\ returned' = [alias |-> TRUE, list |-> successfulEvents]
    /\ UNCHANGED <<cfg, routes, stream, cons, msgChan, tasks, epTasks,
                   successfulEvents, failedEvents, acks, naks, dispatches, posts,
                   responses, httpLog, proc, configFile, modTime, lastModTime,
                   reloads, lookup, maxSize, added, natsUp, connected,
                   transients, apiLog, heap, backlog, handler>>

\* Store.GetEvents: a new slice with a copy of every entry; an entry is
\* copied as a struct, its Endpoints slice header with it
GetEvents ==
    /\ returned' = [alias |-> FALSE, list |-> successfulEvents]
    /\ UNCHANGED <<cfg, routes, stream, cons, msgChan, tasks, epTasks,
                   successfulEvents, failedEvents, acks, naks, dispatches, posts,
                   responses, httpLog, proc, configFile, modTime, lastModTime,
                   reloads, lookup, maxSize, added, natsUp, connected,
                   transients, apiLog, heap, backlog, handler>>

\* Store.GetEventsByDomainFiltered: the entries of one tenant, appended to a
\* new slice
GetEventsByDomainFiltered(domain) ==
    /\ returned' = [alias |-> FALSE,
                    list |-> SelectSeq(successfulEvents,
                                       LAMBDA e : e.domain = domain)]
    /\ UNCHANGED <<cfg, routes, stream, cons, msgChan, tasks, epTasks,
                   successfulEvents, failedEvents, acks, naks, dispatches, posts,
                   responses, httpLog, proc, configFile, modTime, lastModTime,
                   reloads, lookup, maxSize, added, natsUp, connected,
                   transients, apiLog, heap, backlog, handler>>

\* the caller assigns list to the collection it holds; the assignment
\* reaches the store only when the collection is the store's own array
CallerAssigns(list) ==
    /\ returned' = [returned EXCEPT !.list = list]
    /\ successfulEvents' = IF returned.alias /\ returned.list = successfulEvents
                           THEN list
                           ELSE successfulEvents
    /\ UNCHANGED <<cfg, routes, stream, cons, msgChan, tasks, epTasks,
                   failedEvents, acks, naks, dispatches, posts,
                   responses, httpLog, proc, configFile, modTime, lastModTime,
                   reloads, lookup, maxSize, added, natsUp, connected,
                   transients, apiLog, heap, backlog, handler>>

\* the caller overwrites the first entry of its collection
CallerSetEntry ==
    /\ returned.list # <<>>
    /\ returned.list[1] # ZeroEntry
    /\ CallerAssigns([returned.list EXCEPT ![1] = ZeroEntry])

\* the caller changes a field of the first entry of its collection
CallerSetField ==
    /\ returned.list # <<>>
    /\ returned.list[1] # ZeroEntry
    /\ returned.list[1].domain # "changed"
    /\ CallerAssigns([returned.list EXCEPT ![1].domain = "changed"])

\* the caller writes an element of the Endpoints of the first entry of its
\* collection: the write goes to the backing array the slice header names
CallerWriteEndpoint ==
    /\ returned.list # <<>>
    /\ returned.list[1] # ZeroEntry
    /\ heap[returned.list[1].endpoints][1] # "changed"
    /\ heap' = [heap EXCEPT ![returned.list[1].endpoints][1] = "changed"]
    /\ UNCHANGED <<cfg, routes, stream, cons, msgChan, tasks, epTasks,
                   successfulEvents, failedEvents, acks, naks, dispatches, posts,
                   responses, httpLog, proc, configFile, modTime, lastModTime,
                   reloads, lookup, maxSize, added, natsUp, connected,
                   transients, apiLog, returned, backlog, handler>>

NextCopies ==
    \/ \E event \in StoreEvents : StoreAddEventSlice(event)
    \/ GetEvents
    \/ \E domain \in {"t1", "t2"} : GetEventsByDomainFiltered(domain)
    \/ CallerSetEntry
    \/ CallerSetField
    \/ CallerWriteEndpoint

SpecCopies == InitCopies /\ [][NextCopies]_vars

-----------------------------------------------------------------------------
(* GET /api/stats *)

\* m[k] one higher, m a map from keys to counts as Go's map[string]int
Incremented(m, k) ==
    [x \in DOMAIN m \cup {k} |->
        IF x = k THEN (IF k \in DOMAIN m THEN m[k] + 1 ELSE 1) ELSE m[x]]

RECURSIVE DomainCount(_)
\* the loops of GetStats over a list: the entries of each tenant, a map
DomainCount(list) ==
    IF list = <<>> THEN << >>
    ELSE Incremented(DomainCount(SubSeq(list, 1, Len(list) - 1)),
                     list[Len(list)].domain)

RECURSIVE RetryCountAll(_)
\* a count of the failures stored, will_retry set or not
RetryCountAll(list) ==
    IF list = <<>> THEN 0 ELSE 1 + RetryCountAll(Tail(list))

RECURSIVE RetryCount(_)
\* the last loop of GetStats: the failures with WillRetry set
RetryCount(list) ==
    IF list = <<>> THEN 0
    ELSE (IF Head(list).willRetry THEN 1 ELSE 0) + RetryCount(Tail(list))

\* Store.GetStats, under the read lock
GetStats ==
    [total_successful |-> Len(successfulEvents),
     total_failed |-> Len(failedEvents),
     total_events |-> Len(successfulEvents) + Len(failedEvents),
     retry_count |-> RetryCount(failedEvents),
     successful_domain_count |-> DomainCount(successfulEvents),
     failed_domain_count |-> DomainCount(failedEvents),
     domains |-> Cardinality(DOMAIN DomainCount(successfulEvents))
                 + Cardinality(DOMAIN DomainCount(failedEvents))]

\* a call of Store.AddFailedEvent for the tenant of the event
StoreAddFailedEventOf(event, deliveryAttempt) ==
    /\ Len(added) <= StoreCap
    /\ failedEvents' = AddFailedEvent(failedEvents, event, StoreDomain(event), "c1",
                                      deliveryAttempt, cfg.maxDeliveries, <<"A">>,
                                      <<[url |-> "A", res |-> 500]>>)
    /\ added' = Append(added, [list |-> "failed", event |-> event,
                               attempt |-> deliveryAttempt, endpoints |-> 0])
    /\ UNCHANGED <<cfg, routes, stream, cons, msgChan, tasks, epTasks,
                   successfulEvents, acks, naks, dispatches, posts, responses,
                   httpLog, proc, configFile, modTime, lastModTime, reloads,
                   lookup, maxSize, natsUp, connected, transients, apiLog,
                   heap, returned, backlog, handler>>

\* Handler.HandleGetStats; the exchange is logged with the lists the store
\* held while it was served
HandleGetStats(method) ==
    /\ Len(apiLog) < MaxRequests
    /\ apiLog' = Append(apiLog,
          [path |-> "/api/stats", method |-> method,
           status |-> IF method = "GET" THEN 200 ELSE 405,
           stats |-> IF method = "GET" THEN GetStats ELSE << >>,
           successful |-> successfulEvents, failed |-> failedEvents])
    /\ UNCHANGED <<cfg, routes, stream, cons, msgChan, tasks, epTasks,
                   successfulEvents, failedEvents, acks, naks, dispatches, posts,
                   responses, httpLog, proc, configFile, modTime, lastModTime,
                   reloads, lookup, maxSize, added, natsUp, connected,
                   transients, heap, returned, backlog, handler>>

\* the store is filled with a few entries of either kind, the failures of a
\* first or of a last attempt, and read
NextStats ==
    \/ Len(added) <= StoreCap /\ \E event \in StoreEvents : StoreAddEventSlice(event)
    \/ \E event \in StoreEvents : \E k \in {1, cfg.maxDeliveries} :
          StoreAddFailedEventOf(event, k)
    \/ \E method \in {"GET", "POST"} : HandleGetStats(method)

SpecStats == InitCopies /\ [][NextStats]_vars

-----------------------------------------------------------------------------
(* the handler's config reference under watcher and manual reloads *)

\* A *config.Config is named by the reload that built it: 0 is the one main
\* loaded, k the one the k-th call of ReloadConfig put in place.

\* Forwarder.GetConfig: the reference the forwarder holds, which is the one
\* of the last reload that succeeded
GetConfig ==
    LET ok == {k \in 1..Len(reloads) : reloads[k].err = "none"}
    IN  IF ok = {} THEN 0 ELSE CHOOSE k \in ok : \A j \in ok : j <= k

\* watchConfigFile lines 295-310: the tick finds the file modified and calls
\* ReloadConfig; after an error it goes on with the next tick
WatcherReloadConfig ==
    LET r == ReloadConfig(routes, configFile)
    IN  /\ proc = "running"
        /\ handler.watcher = NoRef
        /\ Len(reloads) < MaxReloads
        /\ modTime > lastModTime
        /\ lastModTime' = modTime
        /\ routes' = r.routes
        /\ cfg' = cfg
        /\ reloads' = Append(reloads, Reloaded("watcher", r, 0))
        /\ handler' = IF r.err = "none"
                      THEN [handler EXCEPT !.watcher = AwaitingGetConfig]
                      ELSE handler
        /\ UNCHANGED <<stream, cons, msgChan, tasks, epTasks,
                       successfulEvents, failedEvents, acks, naks, dispatches,
                       posts, responses, httpLog, proc, configFile, modTime,  lookup,
                       maxSize, added, natsUp, connected, transients, apiLog, heap,
                       returned, backlog>>

\* watchConfigFile line 314: the argument fwd.GetConfig() is evaluated
WatcherGetConfig ==
    /\ handler.watcher = AwaitingGetConfig
    /\ handler' = [handler EXCEPT !.watcher = GetConfig]
    /\ UNCHANGED <<cfg, routes, stream, cons, msgChan, tasks, epTasks,
                   successfulEvents, failedEvents, acks, naks, dispatches, posts,
                   responses, httpLog, proc, configFile, modTime, lastModTime,
                   reloads, lookup, maxSize, added, natsUp, connected, transients,
                   apiLog, heap, returned, backlog>>

\* watchConfigFile line 314 and Handler.UpdateConfig: h.config = cfg
WatcherUpdateConfig ==
    /\ handler.watcher >= 0
    /\ handler' = [handler EXCEPT !.config = handler.watcher, !.watcher = NoRef]
    /\ UNCHANGED <<cfg, routes, stream, cons, msgChan, tasks, epTasks,
                   successfulEvents, failedEvents, acks, naks, dispatches, posts,
                   responses, httpLog, proc, configFile, modTime, lastModTime,
                   reloads, lookup, maxSize, added, natsUp, connected, transients,
                   apiLog, heap, returned, backlog>>

\* Handler.HandleReloadConfig lines 601-622, for a POST: ReloadConfig; after
\* an error the answer is 500 and h.config stays
ApiReloadConfig ==
    LET r == ReloadConfig(routes, configFile)
    IN  /\ proc = "running"
        /\ handler.api = NoRef
        /\ Len(reloads) < MaxReloads
        /\ routes' = r.routes
        /\ cfg' = cfg
        /\ reloads' = Append(reloads,
                             Reloaded("api", r, IF r.err = "none" THEN 200 ELSE 500))
        /\ handler' = IF r.err = "none"
                      THEN [handler EXCEPT !.api = AwaitingGetConfig]
                      ELSE handler
        /\ UNCHANGED <<stream, cons, msgChan, tasks, epTasks,
                       successfulEvents, failedEvents, acks, naks, dispatches,
                       posts, responses, httpLog, proc, configFile, modTime, lastModTime, lookup,
                       maxSize, added, natsUp, connected, transients, apiLog, heap,
                       returned, backlog>>

\* Handler.HandleReloadConfig line 625: h.config = h.forwarder.GetConfig()
ApiSetConfig ==
    /\ handler.api = AwaitingGetConfig
    /\ handler' = [handler EXCEPT !.config = GetConfig, !.api = NoRef]
    /\ UNCHANGED <<cfg, routes, stream, cons, msgChan, tasks, epTasks,
                   successfulEvents, failedEvents, acks, naks, dispatches, posts,
                   responses, httpLog, proc, configFile, modTime, lastModTime,
                   reloads, lookup, maxSize, added, natsUp, connected, transients,
                   apiLog, heap, returned, backlog>>

NextHandlerConfig ==
    \/ \E body \in HotPayloads : HandleEvents("POST", body, TRUE)
    \/ \E f \in HotFiles(cfg, modTime + 1) : WriteFile(f)
    \/ WatcherReloadConfig
    \/ WatcherGetConfig
    \/ WatcherUpdateConfig
    \/ ApiReloadConfig
    \/ ApiSetConfig

SpecHandlerConfig == InitHotReload /\ [][NextHandlerConfig]_vars

-----------------------------------------------------------------------------
(* the delivery channel under a burst of other messages *)

\* the fetch loop has queued deliveries of other messages in every slot of
\* msgChan before the consumer loop received one
BurstFillsMsgChan ==
    /\ proc = "running"
    /\ msgChan = <<>>
    /\ backlog = 0
    /\ backlog' = MsgChanCap
    /\ UNCHANGED <<cfg, routes, stream, cons, msgChan, tasks, epTasks,
                   successfulEvents, failedEvents, acks, naks, dispatches, posts,
                   responses, httpLog, proc, configFile, modTime, lastModTime,
                   reloads, lookup, maxSize, added, natsUp, connected, transients,
                   apiLog, heap, returned, handler>>

\* the consumer loop has received the deliveries of the other messages
BurstReceived ==
    /\ backlog > 0
    /\ backlog' = 0
    /\ UNCHANGED <<cfg, routes, stream, cons, msgChan, tasks, epTasks,
                   successfulEvents, failedEvents, acks, naks, dispatches, posts,
                   responses, httpLog, proc, configFile, modTime, lastModTime,
                   reloads, lookup, maxSize, added, natsUp, connected, transients,
                   apiLog, heap, returned, handler>>

NextBurst ==
    \/ \E p \in HotPayloads : Publish(p)
    \/ \E m \in Seqs : Fetch(m)
    \/ \E m \in Seqs : MaxDeliverReached(m)
    \/ StartRecv
    \/ \E t \in tasks : ProcessForward(t)
    \/ \E e \in epTasks : EndpointSend(e)
    \/ \E e \in epTasks : \E code \in {200, 500} : EndpointRespond(e, code)
    \/ \E t \in tasks : JoinFailure(t)
    \/ \E t \in tasks : JoinSuccess(t)
    \/ Tick
    \/ BurstFillsMsgChan
    \/ BurstReceived

SpecBurst == Init /\ [][NextBurst]_vars

-----------------------------------------------------------------------------
(* an acknowledgement that fails *)

\* ForwardEvent lines 134-148 and processMessage lines 156-164 when
\* consumer.Ack returns an error: the success is stored, the failure to
\* acknowledge is logged and the server keeps the message outstanding
JoinSuccessAckError(t) ==
    /\ t \in tasks
    /\ t.pc = "forwarding"
    /\ JoinReady(t)
    /\ Len(t.errChan) = 0
    /\ successfulEvents' = AddEvent(successfulEvents, stream[t.seq], t.domain,
                                    t.callID, t.attempt, t.endpoints)
    /\ tasks' = tasks \ {t}
    /\ UNCHANGED <<ctl, httpLog, cfg, routes, stream, cons, msgChan, epTasks,
                   failedEvents, acks, naks, dispatches, posts, responses>>

NextAckError ==
    \/ \E p \in StreamPayloads : Publish(p)
    \/ \E m \in Seqs : Fetch(m)
    \/ \E m \in Seqs : MaxDeliverReached(m)
    \/ StartRecv
    \/ \E t \in tasks : ProcessInvalid(t)
    \/ \E t \in tasks : ProcessNoRoute(t)
    \/ \E t \in tasks : ProcessForward(t)
    \/ \E e \in epTasks : EndpointSend(e)
    \/ \E e \in epTasks : \E code \in {200, 500} : EndpointRespond(e, code)
    \/ \E t \in tasks : JoinFailure(t)
    \/ \E t \in tasks : JoinSuccess(t)
    \/ \E t \in tasks : JoinSuccessAckError(t)
    \/ Tick

SpecAckError == InitHotReload /\ [][NextAckError]_vars

-----------------------------------------------------------------------------
(* the subject the publisher publishes to *)

\* the subject patterns an operator configures, each with a trailing wildcard
SubjectPatterns == {"call.signal.*", "other.*", "events.>"}

\* a subject or a subject pattern as its dot-separated tokens
Tokens(subject) ==
    IF subject = "call.signal.*" THEN <<"call", "signal", "*">>
    ELSE IF subject = "call.signal.events" THEN <<"call", "signal", "events">>
    ELSE IF subject = "other.*" THEN <<"other", "*">>
    ELSE IF subject = "events.>" THEN <<"events", ">">>
    ELSE <<subject>>

\* NewPublisher lines 442-451: the subject Publish will use
PublishSubject(subjectPattern) ==
    IF subjectPattern = "call.signal.*" THEN "call.signal.events" ELSE subjectPattern

\* the configurations config.Load accepts, for each of the patterns
PublisherConfigs ==
    {c \in [port : {8080}, url : {"nats://localhost:4222"},
            streamName : {"call-signals"}, subjectPattern : SubjectPatterns,
            maxDeliveries : {MaxDeliveriesBound}, ackWait : {AckWaitBound}] :
        Validate(c)}

\* the service is started with one of the patterns
InitPublisher ==
    /\ cfg \in PublisherConfigs
    /\ routes = InitRoutes
    /\ stream = <<>>
    /\ cons = <<>>
    /\ msgChan = <<>>
    /\ tasks = {}
    /\ epTasks = {}
    /\ successfulEvents = <<>>
    /\ failedEvents = <<>>
    /\ acks = {}
    /\ naks = {}
    /\ dispatches = {}
    /\ posts = {}
    /\ responses = {}
    /\ httpLog = <<>>
    /\ proc = "running"
    /\ configFile = File("yaml", cfg, InitRoutes)
    /\ modTime = 0
    /\ lastModTime = 0
    /\ reloads = <<>>
    /\ lookup = NoLookup
    /\ maxSize = StoreMaxSize
    /\ added = <<>>
    /\ natsUp = TRUE
    /\ connected = TRUE
    /\ transients = {}
    /\ apiLog = <<>>
    /\ heap = <<>>
    /\ returned = NothingReturned
    /\ backlog = 0
    /\ handler = StartupHandler

NextPublisher ==
    \E body \in RequestBodies : \E publishOk \in BOOLEAN :
        HandleEvents("POST", body, publishOk)

SpecPublisher == InitPublisher /\ [][NextPublisher]_vars

\* a subject without a wildcard token
Concrete(subject) ==
    \A i \in 1..Len(Tokens(subject)) : Tokens(subject)[i] \notin {"*", ">"}

\* NATS subject matching: "*" stands for one token, a trailing ">" for one or more
RECURSIVE MatchTokens(_, _)
MatchTokens(sub, pat) ==
    IF pat = <<>> THEN sub = <<>>
    ELSE IF sub = <<>> THEN FALSE
    ELSE IF Head(pat) = ">" THEN Len(pat) = 1
    ELSE /\ Head(pat) \in {"*", Head(sub)}
         /\ MatchTokens(Tail(sub), Tail(pat))

Matches(subject, pattern) == MatchTokens(Tokens(subject), Tokens(pattern))

\* C35: every event the HTTP ingress published went to one concrete subject,
\* free of wildcard tokens, that matches the configured subject pattern
C35_PublishesToConcreteSubject ==
    \A k \in 1..Len(httpLog) :
        httpLog[k].publish = "ok" =>
            /\ Concrete(PublishSubject(cfg.subjectPattern))
            /\ Matches(PublishSubject(cfg.subjectPattern), cfg.subjectPattern)

-----------------------------------------------------------------------------
(* GET /health and the connection monitor of the publisher *)

\* the transport loses its connection to the server
Disconnect ==
    /\ natsUp
    /\ natsUp' = FALSE
    /\ UNCHANGED <<cfg, routes, stream, cons, msgChan, tasks, epTasks,
                   successfulEvents, failedEvents, acks, naks, dispatches, posts,
                   responses, httpLog, proc, configFile, modTime, lastModTime,
                   reloads, lookup, maxSize, added, connected, transients, apiLog, heap, returned, backlog, handler>>

\* the transport reconnects (MaxReconnects(-1))
Reconnect ==
    /\ ~natsUp
    /\ natsUp' = TRUE
    /\ UNCHANGED <<cfg, routes, stream, cons, msgChan, tasks, epTasks,
                   successfulEvents, failedEvents, acks, naks, dispatches, posts,
                   responses, httpLog, proc, configFile, modTime, lastModTime,
                   reloads, lookup, maxSize, added, connected, transients, apiLog, heap, returned, backlog, handler>>

\* one round of Publisher.monitorConnection, which runs once a second
monitorConnection ==
    /\ connected' = natsUp
    /\ UNCHANGED <<cfg, routes, stream, cons, msgChan, tasks, epTasks,
                   successfulEvents, failedEvents, acks, naks, dispatches, posts,
                   responses, httpLog, proc, configFile, modTime, lastModTime,
                   reloads, lookup, maxSize, added, natsUp, transients, apiLog, heap, returned, backlog, handler>>

\* Publisher.IsConnected; the flag is read without synchronisation, a read
\* of a bool sees the value before or after a write of the monitor, which is
\* what the interleaving of the steps gives
IsConnected == natsUp /\ connected

\* Handler.HandleHealth; the exchange is logged with the state of the
\* transport at that moment
HandleHealth(method) ==
    /\ Len(apiLog) < MaxRequests
    /\ apiLog' = Append(apiLog,
          [path |-> "/health", method |-> method, up |-> natsUp,
           isConnected |-> IsConnected,
           status |-> IF method # "GET" THEN 405
                      ELSE IF ~IsConnected THEN 503 ELSE 200,
           text |-> IF method # "GET" THEN "Method not allowed"
                    ELSE IF ~IsConnected THEN "NATS not connected"
                    ELSE "{\"status\":\"healthy\"}"])
    /\ UNCHANGED <<cfg, routes, stream, cons, msgChan, tasks, epTasks,
                   successfulEvents, failedEvents, acks, naks, dispatches, posts,
                   responses, httpLog, proc, configFile, modTime, lastModTime,
                   reloads, lookup, maxSize, added, natsUp, connected, transients, heap, returned, backlog, handler>>

NextHealth ==
    \/ Disconnect
    \/ Reconnect
    \/ monitorConnection
    \/ \E method \in {"GET", "POST"} : HandleHealth(method)

SpecHealth == Init /\ [][NextHealth]_vars

-----------------------------------------------------------------------------
(* GET /api/stream/messages *)

\* the limit of HandleGetStreamMessages when the query gives none
StreamMessagesLimit == 100

\* a handler that deletes its consumer at its end and not in a defer
HandleGetStreamMessagesNoDefer(method, fail, deleteOk) ==
    LET created == method = "GET" /\ fail \notin {"streamInfo", "addConsumer"}
        consumerName == Len(apiLog) + 1
        deleted == created /\ deleteOk /\ fail = "none"
    IN  /\ Len(apiLog) < MaxRequests
        /\ transients' = IF created /\ ~deleted
                         THEN transients \cup {consumerName}
                         ELSE transients
        /\ acks' = acks
        /\ cons' = cons
        /\ apiLog' = Append(apiLog,
              [path |-> "/api/stream/messages", method |-> method, fail |-> fail,
               consumer |-> consumerName, created |-> created,
               deleteOk |-> created /\ deleteOk,
               acksBefore |-> acks, acksAfter |-> acks',
               consBefore |-> cons, consAfter |-> cons',
               status |-> IF method # "GET" THEN 405
                          ELSE IF fail # "none" THEN 500 ELSE 200,
               count |-> IF method = "GET" /\ fail = "none"
                         THEN Min({StreamMessagesLimit, Len(stream)}) ELSE 0])
        /\ UNCHANGED <<cfg, routes, stream, msgChan, tasks, epTasks,
                       successfulEvents, failedEvents, naks, dispatches, posts,
                       responses, httpLog, proc, configFile, modTime, lastModTime,
                       reloads, lookup, maxSize, added, natsUp, connected, heap, returned, backlog, handler>>

\* Handler.HandleGetStreamMessages: fail is the call that returns an error
\* (StreamInfo, AddConsumer, PullSubscribe, Fetch) or "none"; deleteOk tells
\* whether the deferred js.DeleteConsumer, whose error is dropped, removes
\* the consumer; the consumer is named after the time of the request
HandleGetStreamMessages(method, fail, deleteOk) ==
    LET created == method = "GET" /\ fail \notin {"streamInfo", "addConsumer"}
        consumerName == Len(apiLog) + 1
        deleted == created /\ deleteOk
    IN  /\ Len(apiLog) < MaxRequests
        /\ transients' = IF created /\ ~deleted
                         THEN transients \cup {consumerName}
                         ELSE transients
        /\ acks' = acks
        /\ cons' = cons
        /\ apiLog' = Append(apiLog,
              [path |-> "/api/stream/messages", method |-> method, fail |-> fail,
               consumer |-> consumerName, created |-> created,
               deleteOk |-> created /\ deleteOk,
               acksBefore |-> acks, acksAfter |-> acks',
               consBefore |-> cons, consAfter |-> cons',
               status |-> IF method # "GET" THEN 405
                          ELSE IF fail # "none" THEN 500 ELSE 200,
               count |-> IF method = "GET" /\ fail = "none"
                         THEN Min({StreamMessagesLimit, Len(stream)}) ELSE 0])
        /\ UNCHANGED <<cfg, routes, stream, msgChan, tasks, epTasks,
                       successfulEvents, failedEvents, naks, dispatches, posts,
                       responses, httpLog, proc, configFile, modTime, lastModTime,
                       reloads, lookup, maxSize, added, natsUp, connected, heap, returned, backlog, handler>>

NextStreamMessages ==
    \/ \E p \in HotPayloads : Publish(p)
    \/ \E m \in Seqs : Fetch(m)
    \/ \E method \in {"GET", "POST"} :
          \E fail \in {"none", "streamInfo", "addConsumer", "subscribe", "fetch"} :
             \E deleteOk \in BOOLEAN :
                HandleGetStreamMessages(method, fail, deleteOk)

SpecStreamMessages == Init /\ [][NextStreamMessages]_vars

-----------------------------------------------------------------------------
(* several events in the pipeline at once *)

\* producers post the same event again and again while the service forwards
NextConcurrent ==
    \/ \E body \in HotPayloads : HandleEvents("POST", body, TRUE)
    \/ \E m \in Seqs : Fetch(m)
    \/ \E m \in Seqs : MaxDeliverReached(m)
    \/ StartRecv
    \/ \E t \in tasks : ProcessForward(t)
    \/ \E e \in epTasks : EndpointSend(e)
    \/ \E e \in epTasks : EndpointRespond(e, 200)
    \/ \E e \in epTasks : EndpointTimeout(e)
    \/ \E t \in tasks : JoinFailure(t)
    \/ \E t \in tasks : JoinSuccess(t)
    \/ Tick

SpecConcurrent == InitHotReload /\ [][NextConcurrent]_vars

-----------------------------------------------------------------------------
(* what the claims speak of *)

\* the ForwardEvent call d has returned
DispatchDone(d) == ~\E t \in tasks : t.seq = d.seq /\ t.attempt = d.attempt

\* the message of dispatch d was acknowledged in that dispatch
AckedIn(d) == [seq |-> d.seq, attempt |-> d.attempt] \in acks

\* the outcomes observed for endpoint i of dispatch d
ResponsesOf(d, i) ==
    {r \in responses : r.seq = d.seq /\ r.attempt = d.attempt /\ r.idx = i}

\* the POSTs issued to endpoint i of dispatch d
PostsOf(d, i) ==
    {q \in posts : q.seq = d.seq /\ q.attempt = d.attempt /\ q.idx = i}

\* endpoint i of dispatch d returned a status in [200, 300) before the deadline
Returned2xx(d, i) == \E r \in ResponsesOf(d, i) : r.res \in 200..299

\* every endpoint of dispatch d returned a status in [200, 300)
All2xx(d) == \A i \in 1..Len(d.endpoints) : Returned2xx(d, i)

\* the failure outcomes stored for dispatch d
FailuresOf(d) ==
    {j \in 1..Len(failedEvents) :
        failedEvents[j].event = stream[d.seq] /\ failedEvents[j].attempt = d.attempt}

\* the success outcomes stored for dispatch d
SuccessesOf(d) ==
    {j \in 1..Len(successfulEvents) :
        successfulEvents[j].event = stream[d.seq]
        /\ successfulEvents[j].attempt = d.attempt}

-----------------------------------------------------------------------------
(* C1 *)

\* C1 as stated: once a dispatch has returned, its message is acknowledged
\* if and only if every endpoint configured for the tenant returned a 2xx
\* status within the deadline.
C1_AckIffEveryEndpoint2xx ==
    \A d \in dispatches : DispatchDone(d) => (AckedIn(d) <=> All2xx(d))

\* C1, amended: a message is acknowledged in a dispatch if and only if the
\* tenant has at least one endpoint and every endpoint returned a 2xx status
\* within the deadline; no Ack is made outside a dispatch, and none while an
\* endpoint has returned non-2xx, failed in transport or timed out.
C1_AckIffRoutedAndEveryEndpoint2xx ==
    /\ \A a \in acks : \E d \in dispatches : d.seq = a.seq /\ d.attempt = a.attempt
    /\ \A d \in dispatches :
          /\ AckedIn(d) => Len(d.endpoints) > 0 /\ All2xx(d)
          /\ DispatchDone(d) =>
                (AckedIn(d) <=> (Len(d.endpoints) > 0 /\ All2xx(d)))

\* a dispatch to two endpoints that answered 200 and 299 has been acknowledged
C1_Witness ==
    \E d \in dispatches :
        /\ Len(d.endpoints) = 2
        /\ AckedIn(d)
        /\ \E r \in ResponsesOf(d, 1) : r.res = 200
        /\ \E r \in ResponsesOf(d, 2) : r.res = 299

-----------------------------------------------------------------------------
(* C2 *)

\* the endpoint goroutines of dispatch d that have not returned yet
PendingOf(d) == {e \in epTasks : e.seq = d.seq /\ e.attempt = d.attempt}

\* C2: when a message has been acknowledged in a dispatch, the response of
\* every endpoint of that dispatch has been observed before: no POST of the
\* dispatch is outstanding and every POST issued has its outcome.
C2_AckAfterEveryResponse ==
    \A d \in dispatches :
        AckedIn(d) =>
            /\ PendingOf(d) = {}
            /\ \A i \in 1..Len(d.endpoints) :
                  PostsOf(d, i) # {} /\ ResponsesOf(d, i) # {}

\* a second delivery to two endpoints was acknowledged with both responses in
C2_Witness ==
    \E d \in dispatches :
        /\ Len(d.endpoints) = 2
        /\ d.attempt = 2
        /\ AckedIn(d)
        /\ ResponsesOf(d, 1) # {} /\ ResponsesOf(d, 2) # {}

-----------------------------------------------------------------------------
(* C3 *)

\* the endpoints of dispatch d that did not return a 2xx status
FailedEndpoints(d) == {i \in 1..Len(d.endpoints) : ~Returned2xx(d, i)}

\* C3: every endpoint of the tenant is attempted on every dispatch, whatever
\* the other endpoints did: while the dispatch runs each endpoint either has
\* been POSTed or still has its goroutine, once it has returned each endpoint
\* has been POSTed and has answered, and the failure stored for it carries
\* exactly one error message per failed endpoint.
C3_EveryEndpointAttempted ==
    \A d \in dispatches :
        /\ \A i \in 1..Len(d.endpoints) :
              \/ \E q \in PostsOf(d, i) : q.url = d.endpoints[i]
              \/ \E e \in PendingOf(d) : e.idx = i /\ e.st = "spawned"
        /\ DispatchDone(d) =>
              /\ \A i \in 1..Len(d.endpoints) :
                    PostsOf(d, i) # {} /\ Cardinality(ResponsesOf(d, i)) = 1
              /\ \A j \in FailuresOf(d) :
                    LET msgs == failedEvents[j].errorMessages
                    IN  /\ Len(msgs) = Cardinality(FailedEndpoints(d))
                        /\ \A i \in FailedEndpoints(d) :
                              Cardinality({k \in 1..Len(msgs) :
                                  /\ msgs[k].url = d.endpoints[i]
                                  /\ \E r \in ResponsesOf(d, i) :
                                        msgs[k].res = r.res}) = 1
              /\ (Len(d.endpoints) > 0 /\ FailedEndpoints(d) # {}) =>
                    Cardinality(FailuresOf(d)) = 1

\* a dispatch whose first endpoint failed in transport returned after its
\* second endpoint was POSTed as well and answered 199: two error messages
C3_Witness ==
    \E d \in dispatches :
        /\ DispatchDone(d)
        /\ \E r \in ResponsesOf(d, 1) : r.res = TransportError
        /\ \E r \in ResponsesOf(d, 2) : r.res = 199
        /\ PostsOf(d, 2) # {}
        /\ \E j \in FailuresOf(d) : Len(failedEvents[j].errorMessages) = 2

-----------------------------------------------------------------------------
(* C4 *)

\* dispatch d has returned a failure
FailedDispatch(d) ==
    DispatchDone(d) /\ (Len(d.endpoints) = 0 \/ FailedEndpoints(d) # {})

\* delivery k of message m has been dispatched and has POSTed its payload to
\* every endpoint of the tenant
Redispatched(m, k) ==
    \E d \in dispatches :
        /\ d.seq = m /\ d.attempt = k
        /\ d.endpoints = GetEndpoints(routes, d.domain)
        /\ \A i \in 1..Len(d.endpoints) :
              \E q \in PostsOf(d, i) :
                  q.body = EventPayload(stream[m], k)

\* a failed dispatch is never acknowledged (nor negatively acknowledged)
C4_FailedNotAcked ==
    \A d \in dispatches :
        FailedDispatch(d) =>
            /\ ~AckedIn(d)
            /\ [seq |-> d.seq, attempt |-> d.attempt] \notin naks

\* a delivery that follows an unanswered one is made when ack_wait_seconds
\* have passed since, with num_delivered one higher, of the same payload
C4_RedeliveryAtAckWait ==
    \A m \in Seqs :
        (cons[m].state = "outstanding"
            /\ cons'[m].numDelivered # cons[m].numDelivered) =>
                /\ cons[m].timer = cfg.ackWait
                /\ cons'[m].numDelivered = cons[m].numDelivered + 1
                /\ stream'[m] = stream[m]
                /\ msgChan' = Append(msgChan,
                                     [seq |-> m, attempt |-> cons[m].numDelivered + 1])

-----------------------------------------------------------------------------
(* C5 *)

\* the attempts of message m that were dispatched
DispatchedAttempts(m) == {d.attempt : d \in {x \in dispatches : x.seq = m}}

\* the failure outcomes stored for attempt k of message m
FailuresAt(m, k) ==
    {j \in 1..Len(failedEvents) :
        failedEvents[j].event = stream[m] /\ failedEvents[j].attempt = k}

\* message m was dispatched to at least one endpoint
Routed(m) == \E d \in dispatches : d.seq = m /\ Len(d.endpoints) > 0

\* when the stream has given up a routed message, exactly max_deliveries
\* dispatches were made and exactly max_deliveries failures are stored, one
\* per attempt 1..max_deliveries, will_retry set on all but the last
C5_ExactlyMaxDeliveries ==
    \A m \in Seqs :
        /\ cons[m].numDelivered <= cfg.maxDeliveries
        /\ \A k \in DispatchedAttempts(m) : k <= cons[m].numDelivered
        /\ (cons[m].state = "exhausted" /\ Routed(m)) =>
              /\ DispatchedAttempts(m) = 1..cfg.maxDeliveries
              /\ \A d \in dispatches : d.seq = m => FailedDispatch(d)
              /\ \A k \in 1..cfg.maxDeliveries :
                    /\ Cardinality(FailuresAt(m, k)) = 1
                    /\ \A j \in FailuresAt(m, k) :
                          failedEvents[j].willRetry = (k # cfg.maxDeliveries)
              /\ Cardinality({j \in 1..Len(failedEvents) :
                                 failedEvents[j].event = stream[m]})
                    = cfg.maxDeliveries

\* a message the stream has given up is never delivered again
C5_NoDeliveryAfterLast ==
    \A m \in Seqs : cons[m].state = "exhausted" => cons'[m] = cons[m]

-----------------------------------------------------------------------------
(* C6 *)

\* C6: every failure outcome in the store carries the delivery attempt of a
\* delivery that was made and will_retry = (attempt < max_deliveries).
C6_WillRetryIffAttemptBelowMax ==
    \A j \in 1..Len(failedEvents) :
        LET f == failedEvents[j]
        IN  /\ f.willRetry = (f.attempt < cfg.maxDeliveries)
            /\ f.maxDeliveries = cfg.maxDeliveries
            /\ \E d \in dispatches : j \in FailuresOf(d)

\* the store holds a failure of the last permitted attempt, after an earlier
\* one, with max_deliveries = 2
C6_Witness ==
    /\ cfg.maxDeliveries = 2
    /\ Len(failedEvents) = 2
    /\ \E j \in 1..Len(failedEvents) :
          failedEvents[j].attempt = 2 /\ ~failedEvents[j].willRetry
    /\ \E j \in 1..Len(failedEvents) :
          failedEvents[j].attempt = 1 /\ failedEvents[j].willRetry

-----------------------------------------------------------------------------
(* C7 *)

\* C7: a dispatch for a tenant that has no route, or a route whose endpoint
\* list is empty, issues no HTTP request and does not acknowledge the message.
C7_NoRouteNoHttpNoAck ==
    \A d \in dispatches :
        Len(d.endpoints) = 0 =>
            /\ DispatchDone(d)
            /\ PendingOf(d) = {}
            /\ \A q \in posts : ~(q.seq = d.seq /\ q.attempt = d.attempt)
            /\ ~AckedIn(d)
            /\ [seq |-> d.seq, attempt |-> d.attempt] \notin naks

\* the stream has given up a message whose tenant has no route, or a route
\* that lists no endpoint, after dispatching it
C7_Witness ==
    \E d \in dispatches :
        /\ Len(d.endpoints) = 0
        /\ \/ \A i \in 1..Len(routes) : routes[i].domain # d.domain
           \/ \E i \in 1..Len(routes) :
                 routes[i].domain = d.domain /\ routes[i].endpoints = <<>>
        /\ cons[d.seq].state = "exhausted"

-----------------------------------------------------------------------------
(* C8 *)

-----------------------------------------------------------------------------
(* C9 *)

\* the integer literal s is a float64 exactly
ExactFloat64(s) == s # "9007199254740993"

-----------------------------------------------------------------------------
(* C10 *)

\* the tenant a body names, under `domain` or else under `Domain`
TenantOf(body) ==
    IF "domain" \in DOMAIN body.obj THEN body.obj["domain"]
    ELSE body.obj["Domain"]

\* C10: for every accepted POST /events the object published to the stream
\* has exactly the fields the producer sent, names and values, plus a
\* lower-case `domain`: no field of the producer is dropped, none is added.
C10_PublishedIsBodyPlusDomain ==
    \A i \in 1..Len(httpLog) :
        httpLog[i].status = 202 =>
            /\ httpLog[i].body.kind = "object"
            /\ stream[httpLog[i].seq] =
                  Obj(Put(httpLog[i].body.obj, "domain", TenantOf(httpLog[i].body)))

-----------------------------------------------------------------------------
(* C11 *)

\* the object carries no tenant: neither `domain` nor `Domain` is there with
\* anything but the empty string
NoTenant(body) ==
    \A k \in {"domain", "Domain"} :
        k \in DOMAIN body.obj => body.obj[k] = Str("")

\* C11: a POST /events whose body is not parseable JSON is answered 400
\* "Invalid JSON payload", one whose object has no non-empty domain/Domain is
\* answered 400 "domain is required", and neither publishes anything.
C11_BadBodyRejected ==
    \A i \in 1..Len(httpLog) :
        LET x == httpLog[i]
        IN  x.method = "POST" =>
              /\ x.body.kind = "garbage" =>
                    /\ x.status = 400 /\ x.text = "Invalid JSON payload"
                    /\ x.publish = "none" /\ x.seq = 0
              /\ (x.body.kind = "object" /\ NoTenant(x.body)) =>
                    /\ x.status = 400 /\ x.text = "domain is required"
                    /\ x.publish = "none" /\ x.seq = 0

-----------------------------------------------------------------------------
(* C12 *)

\* C12: POST /events answers accepted only when Publish has returned success,
\* the message then being on the stream; whenever Publish fails the answer is
\* 500 and not accepted.
C12_AcceptedOnlyAfterPublish ==
    /\ \A i \in 1..Len(httpLog) :
          LET x == httpLog[i]
          IN  /\ (x.status = 202 \/ x.status = 200
                    \/ x.text = "{\"status\":\"accepted\"}") =>
                    /\ x.publish = "ok"
                    /\ x.status = 202 /\ x.text = "{\"status\":\"accepted\"}"
                    /\ x.seq \in 1..Len(stream)
              /\ x.publish = "failed" =>
                    x.status = 500 /\ x.text = "Internal server error" /\ x.seq = 0
              /\ x.publish = "ok" => x.status = 202
    /\ Len(stream) = Cardinality({i \in 1..Len(httpLog) : httpLog[i].status = 202})

\* one request was answered 500 because Publish failed, another 202 with its
\* message on the stream
C12_Witness ==
    /\ \E i \in 1..Len(httpLog) :
          httpLog[i].publish = "failed" /\ httpLog[i].status = 500
    /\ \E i \in 1..Len(httpLog) :
          httpLog[i].status = 202 /\ httpLog[i].seq = Len(stream)

-----------------------------------------------------------------------------
(* C13 *)

\* the body names its tenant under `Domain` only
CapitalOnly(body) ==
    /\ body.kind = "object"
    /\ "Domain" \in DOMAIN body.obj
    /\ "domain" \notin DOMAIN body.obj
    /\ body.obj["Domain"].t = "str"
    /\ body.obj["Domain"] # Str("")

\* every value of the body is a string
AllStrings(body) == \A k \in DOMAIN body.obj : body.obj[k].t = "str"

-----------------------------------------------------------------------------
(* C14 *)

\* the object carries a tenant: a non-empty string under `domain` or `Domain`
HasTenant(body) ==
    \E k \in {"domain", "Domain"} :
        /\ k \in DOMAIN body.obj
        /\ body.obj[k].t = "str"
        /\ body.obj[k] # Str("")

\* C14: POST /events accepts every body that is a JSON object with a
\* non-empty tenant under `domain` or `Domain`, whatever its other fields and
\* the types of their values, routed or not: unless Publish fails it
\* publishes and answers accepted.
C14_EveryTenantedObjectAccepted ==
    \A i \in 1..Len(httpLog) :
        LET x == httpLog[i]
        IN  (x.method = "POST" /\ x.body.kind = "object" /\ HasTenant(x.body)
                /\ x.publish # "failed") =>
              /\ x.status = 202
              /\ x.publish = "ok"
              /\ x.seq \in 1..Len(stream)

-----------------------------------------------------------------------------
(* C15 *)

\* the file sets ack_wait_seconds to 3 or less or max_deliveries below 1
ViolatesLimits(file) ==
    file.kind = "yaml" /\ (file.conf.ackWait <= 3 \/ file.conf.maxDeliveries < 1)

\* C15: a configuration config.Load has returned has ack_wait_seconds > 3
\* and max_deliveries >= 1, and with a file that violates either the process
\* exits with the error instead of starting.
C15_LoadedConfigWithinLimits ==
    /\ proc = "running" =>
          /\ cfg.ackWait > 3 /\ cfg.maxDeliveries >= 1
          /\ cfg = configFile.conf
          /\ Load(configFile).err = "none"
    /\ (proc # "boot" /\ ViolatesLimits(configFile)) =>
          /\ proc = "exited"
          /\ Load(configFile).err = "invalid"
          /\ cfg = NoConfig

\* the process has exited on a file whose only fault is ack_wait_seconds = 3
C15_Witness ==
    /\ proc = "exited"
    /\ configFile.kind = "yaml"
    /\ configFile.conf.ackWait = 3
    /\ configFile.conf.maxDeliveries = 1
    /\ configFile.conf.port = 8080
    /\ configFile.conf.url # ""
    /\ configFile.conf.streamName # ""
    /\ configFile.conf.subjectPattern # ""

-----------------------------------------------------------------------------
(* C16 *)

\* C16: a reload that fails, the file being unreadable, no YAML or not valid,
\* leaves the live route table as it was, and a lookup made when it has
\* returned is served from that table.
C16_FailedReloadKeepsTable ==
    /\ \A k \in 1..Len(reloads) :
          /\ reloads[k].err # "none" => reloads[k].after = reloads[k].before
          /\ (reloads[k].file.kind # "yaml" \/ reloads[k].file.conf.ackWait <= 3) =>
                reloads[k].err # "none" /\ reloads[k].after = reloads[k].before
    /\ (Len(reloads) > 0 /\ reloads[Len(reloads)].err # "none") =>
          /\ routes = reloads[Len(reloads)].before
          /\ (lookup.pc # "idle" /\ lookup.from = Len(reloads)) =>
                lookup.table = reloads[Len(reloads)].before

\* a reload of a file that sets ack_wait_seconds = 3 and other routes has
\* failed after a reload that had succeeded, and a lookup was served since
C16_Witness ==
    /\ Len(reloads) = 2
    /\ reloads[1].err = "none"
    /\ reloads[2].err = "invalid"
    /\ reloads[2].file.routes # reloads[2].before
    /\ routes = reloads[1].after
    /\ lookup.pc = "done" /\ lookup.from = 2

-----------------------------------------------------------------------------
(* C17 *)

\* the route tables that were live at some time since the lookup began
TablesDuringLookup ==
    {lookup.table} \cup {reloads[k].after : k \in (lookup.from + 1)..Len(reloads)}

\* C17: a lookup that ran while reloads were made returns the complete
\* endpoint list the tenant has in one of the tables that were live
\* meanwhile, empty when the tenant is not in that table; never anything
\* else.
C17_LookupSeesOneTable ==
    lookup.pc = "done" =>
        \E T \in TablesDuringLookup : lookup.result = GetEndpoints(T, lookup.domain)

\* a lookup of t2 begun before a reload put B in the place of A has returned
\* the endpoints of the old table
C17_Witness ==
    /\ lookup.pc = "done"
    /\ lookup.domain = "t2"
    /\ lookup.from = 0
    /\ Len(reloads) > 0
    /\ reloads[1].err = "none"
    /\ reloads[1].after = RoutesB
    /\ lookup.result = <<"A">>

-----------------------------------------------------------------------------
(* C18 *)

\* the route table in force after the first n reloads
TableAfter(n) == IF n = 0 THEN InitRoutes ELSE reloads[n].after

\* reload k swapped the endpoints of tenant t2 from [A] to [B]
SwappedAToB(k) ==
    /\ reloads[k].err = "none"
    /\ GetEndpoints(reloads[k].before, "t2") = <<"A">>
    /\ GetEndpoints(reloads[k].after, "t2") = <<"B">>

\* the dispatch a POST in flight belongs to
DispatchOf(p) == CHOOSE d \in dispatches : d.seq = p.seq /\ d.attempt = p.attempt

\* C18: a dispatch takes the endpoints of the table in force when it starts,
\* so after a swap of a tenant from [A] to [B] no dispatch that starts later
\* POSTs to A; every POST goes to an endpoint of its own dispatch; and a POST
\* in flight at the moment of a reload is not cancelled by it: it stays in
\* flight until it has its outcome from the endpoint (a status, a transport
\* error or the deadline of its own dispatch).
C18_SwapAffectsOnlyLaterDispatches ==
    /\ \A d \in dispatches :
          LET ps == {q \in posts : q.seq = d.seq /\ q.attempt = d.attempt}
          IN  /\ d.epoch \in 0..Len(reloads)
              /\ d.endpoints = GetEndpoints(TableAfter(d.epoch), d.domain)
              /\ \A q \in ps : q.url = d.endpoints[q.idx]
              /\ (d.epoch > 0 /\ d.endpoints = <<"B">>
                    /\ \E k \in 1..d.epoch : SwappedAToB(k)) =>
                      \A q \in ps : q.url # "A"
    /\ \A k \in 1..Len(reloads) : \A p \in reloads[k].pending :
          \/ \E e \in epTasks : /\ e.seq = p.seq /\ e.attempt = p.attempt
                                /\ e.idx = p.idx /\ e.st = "inflight"
          \/ \E r \in responses : /\ r.seq = p.seq /\ r.attempt = p.attempt
                                  /\ r.idx = p.idx
                                  /\ r.url = DispatchOf(p).endpoints[p.idx]

\* a POST to A was in flight when a reload swapped t2 from [A] to [B]; it
\* was answered 500 by A afterwards, and the next delivery, dispatched after
\* the swap, was POSTed to B
C18_Witness ==
    \E k \in 1..Len(reloads) :
        /\ SwappedAToB(k)
        /\ \E p \in reloads[k].pending :
              /\ DispatchOf(p).endpoints = <<"A">>
              /\ DispatchOf(p).epoch < k
              /\ \E r \in responses :
                    /\ r.seq = p.seq /\ r.attempt = p.attempt /\ r.idx = p.idx
                    /\ r.url = "A" /\ r.res = 500
        /\ \E d \in dispatches :
              /\ d.epoch >= k
              /\ d.endpoints = <<"B">>
              /\ \E q \in PostsOf(d, 1) : q.url = "B"

-----------------------------------------------------------------------------
(* C19 *)

\* the settings the service started with
StartupConf == IF reloads = <<>> THEN cfg ELSE reloads[1].confBefore

\* reload k succeeded on a file that changes the port, the stream name, the
\* subject pattern, ack_wait and max_deliveries
ChangedEverySetting(k) ==
    /\ reloads[k].err = "none"
    /\ reloads[k].file.conf.port # StartupConf.port
    /\ reloads[k].file.conf.streamName # StartupConf.streamName
    /\ reloads[k].file.conf.subjectPattern # StartupConf.subjectPattern
    /\ reloads[k].file.conf.ackWait # StartupConf.ackWait
    /\ reloads[k].file.conf.maxDeliveries # StartupConf.maxDeliveries

-----------------------------------------------------------------------------
(* C20 *)

\* the entries handed to list l of the store, in call order
AddedTo(l) == SelectSeq(added, LAMBDA a : a.list = l)

\* the last n entries of a sequence
Latest(seq, n) == SubSeq(seq, Len(seq) - n + 1, Len(seq))

\* list holds what was handed to list l most recently, as many entries as
\* the capacity n allows, in the order of the calls
HoldsLatest(list, l, n) ==
    LET all == AddedTo(l)
        kept == Latest(all, Min({Len(all), n}))
    IN  /\ Len(list) <= n
        /\ Len(list) = Len(kept)
        /\ \A i \in 1..Len(list) :
              /\ list[i].event = kept[i].event
              /\ list[i].attempt = kept[i].attempt

\* C20: after any sequence of AddEvent and AddFailedEvent calls on a store
\* of capacity N > 0, each list holds at most N entries and equals the most
\* recent min(count, N) entries added to that list, in insertion order: on
\* overflow the oldest entries are the ones evicted.
C20_ListsHoldLatestN ==
    maxSize > 0 =>
        /\ HoldsLatest(successfulEvents, "successful", maxSize)
        /\ HoldsLatest(failedEvents, "failed", maxSize)

\* both lists of a store of capacity 2 have overflowed: three entries went to
\* each, the oldest of another event than the one after it, and each list
\* starts with the second entry handed to it
C20_Witness ==
    /\ maxSize = 2
    /\ Len(AddedTo("successful")) = 3
    /\ AddedTo("successful")[1].event # AddedTo("successful")[2].event
    /\ AddedTo("successful")[2].event # AddedTo("successful")[3].event
    /\ Len(successfulEvents) = 2
    /\ successfulEvents[1].event = AddedTo("successful")[2].event
    /\ Len(AddedTo("failed")) = 3
    /\ AddedTo("failed")[1].event # AddedTo("failed")[2].event
    /\ Len(failedEvents) = 2
    /\ failedEvents[1].event = AddedTo("failed")[2].event

-----------------------------------------------------------------------------
(* C21 *)

\* C21 as stated: no message is lost across a restart: every message of the
\* stream, published or left unacknowledged while the service was down
\* included, has been acknowledged, or has had its max_deliveries
\* deliveries, or is still with the durable consumer to be delivered.
C21_NoMessageLostAcrossRestart ==
    \A m \in Seqs :
        cons[m].state \in {"new", "outstanding", "nakked", "acked", "exhausted"}

-----------------------------------------------------------------------------
(* C22 *)

\* the deliveries of message m the service holds: waiting in msgChan or with
\* a processMessage goroutine that has not returned
HeldDeliveries(m) ==
    {[attempt |-> msgChan[i].attempt] : i \in {j \in 1..Len(msgChan) : msgChan[j].seq = m}}
    \cup {[attempt |-> t.attempt] : t \in {x \in tasks : x.seq = m}}

\* C22: with ack_wait > 3 s, which every configuration Validate accepts
\* has, a message is not redelivered while an earlier dispatch of it is in
\* flight: at any time the service holds at most one delivery of a message,
\* in msgChan or with a processMessage goroutine.
C22_OneDispatchAtATime ==
    \A m \in Seqs :
        /\ Cardinality(HeldDeliveries(m)) <= 1
        /\ Cardinality({t \in tasks : t.seq = m}) <= 1
        /\ Cardinality({i \in 1..Len(msgChan) : msgChan[i].seq = m}) <= 1

\* the first dispatch of a message ran into its 3 s deadline on a slow
\* endpoint and has returned; the second delivery is being dispatched
C22_Witness ==
    \E t \in tasks :
        /\ cfg.ackWait > BackendTimeout
        /\ t.attempt = 2
        /\ t.pc = "forwarding"
        /\ \E r \in responses :
              r.seq = t.seq /\ r.attempt = 1 /\ r.res = DeadlineExceeded
        /\ ~\E u \in tasks : u.seq = t.seq /\ u.attempt = 1

-----------------------------------------------------------------------------
(* C23 *)

\* C23 as stated: shutdown does not cancel a dispatch in flight: a POST that
\* was sent before the service context was cancelled ends with the answer
\* of its endpoint, a transport error or the 3 s deadline of its dispatch,
\* never with the cancellation of the service context.
C23_ShutdownLetsDispatchesFinish ==
    \A r \in responses :
        (\E q \in posts : q.seq = r.seq /\ q.attempt = r.attempt /\ q.idx = r.idx)
            => r.res # Canceled

-----------------------------------------------------------------------------
(* C24 *)

\* C24 as stated: POST /api/config/reload answers 200 when the reload
\* succeeds, 400 when the file does not parse or does not validate, and 500
\* on any other failure.
C24_ReloadStatusByFailureKind ==
    \A k \in 1..Len(reloads) :
        reloads[k].by = "api" =>
            reloads[k].status =
                IF reloads[k].err = "none" THEN 200
                ELSE IF reloads[k].err \in {"parse", "invalid"} THEN 400
                ELSE 500

-----------------------------------------------------------------------------
(* C25 *)

\* C25 as stated: GET /health answers 200 whenever the transport is
\* connected and 503 whenever it is not, and IsConnected returns true only
\* when the transport is connected.
C25_HealthFollowsTransport ==
    \A k \in 1..Len(apiLog) :
        (apiLog[k].path = "/health" /\ apiLog[k].method = "GET") =>
            /\ apiLog[k].status = IF apiLog[k].up THEN 200 ELSE 503
            /\ apiLog[k].isConnected => apiLog[k].up

-----------------------------------------------------------------------------
(* C26 *)

\* the exchanges of GET /api/stream/messages
StreamReads == {k \in 1..Len(apiLog) : apiLog[k].path = "/api/stream/messages"}

-----------------------------------------------------------------------------
(* C27 *)

\* the POSTs HandleEvents accepted
Accepted == {k \in 1..Len(httpLog) : httpLog[k].status = 202}

\* C27: every accepted POST has a stream entry of its own, also when its
\* payload is that of an earlier one (the broker suppresses no duplicate),
\* and each entry is dispatched and acknowledged for itself: it counts as
\* acknowledged exactly when a dispatch of that very entry had a 2xx from
\* every endpoint and acknowledged it.
C27_IdenticalPostsAreSeparateEntries ==
    /\ Len(stream) = Cardinality(Accepted)
    /\ \A k \in Accepted :
          /\ httpLog[k].seq \in Seqs
          /\ stream[httpLog[k].seq] =
                MarshalEvent(DecodeStruct(httpLog[k].body, EventFields).val)
          /\ \A j \in Accepted : j # k => httpLog[j].seq # httpLog[k].seq
    /\ \A m \in Seqs :
          /\ (cons[m].state = "acked") = (\E a \in acks : a.seq = m)
          /\ \A a \in acks :
                a.seq = m =>
                    \E d \in dispatches :
                        d.seq = m /\ d.attempt = a.attempt /\ All2xx(d)

\* two POSTs with the same body were accepted; the stream holds the payload
\* twice, each entry was POSTed to the endpoint in a dispatch of its own and
\* acknowledged
C27_Witness ==
    \E j, k \in Accepted :
        /\ j # k
        /\ httpLog[j].body = httpLog[k].body
        /\ httpLog[j].seq # httpLog[k].seq
        /\ stream[httpLog[j].seq] = stream[httpLog[k].seq]
        /\ \A m \in {httpLog[j].seq, httpLog[k].seq} :
              /\ cons[m].state = "acked"
              /\ \E d \in dispatches : d.seq = m /\ AckedIn(d)
              /\ \E q \in posts : q.seq = m

-----------------------------------------------------------------------------
(* C30 *)

\* C30: the loop hands each message to a task of its own and keeps
\* receiving: whenever a message waits in msgChan the loop can take it,
\* whatever dispatches are in progress, and no task is ever in the way of
\* another message's acknowledgement: a message is acknowledged as soon as
\* its own dispatch has returned.
C30_LoopReceivesWhileDispatching ==
    /\ msgChan # <<>> => ENABLED StartRecv
    /\ \A t \in tasks :
          (t.pc = "forwarding" /\ JoinReady(t) /\ Len(t.errChan) = 0)
              => ENABLED JoinSuccess(t)

\* the dispatch of the first message is still waiting for its endpoint
\* when the second message, received after it, has been dispatched,
\* answered and acknowledged
C30_Witness ==
    /\ Len(stream) >= 2
    /\ \E t \in tasks : t.seq = 1 /\ t.attempt = 1 /\ t.pc = "forwarding"
    /\ \E e \in epTasks : e.seq = 1 /\ e.attempt = 1 /\ e.st = "inflight"
    /\ cons[1].state = "outstanding"
    /\ [seq |-> 2, attempt |-> 1] \in acks
    /\ cons[2].state = "acked"
    /\ \E d \in dispatches : d.seq = 2 /\ d.attempt = 1 /\ All2xx(d)

-----------------------------------------------------------------------------
(* C28 *)

\* the errors the endpoints of dispatch d returned, as errChan carries them
ErrorsOf(d) ==
    {[url |-> r.url, res |-> r.res] :
        r \in {x \in responses : /\ x.seq = d.seq
                                  /\ x.attempt = d.attempt
                                  /\ ~EndpointOk(x.res)}}

\* C28: a dispatch for a tenant that has endpoints stores nothing while it
\* runs and exactly one outcome once it has returned: a success if and only
\* if every endpoint succeeded, otherwise a failure that carries one error
\* message for each endpoint that failed and none for the others; never
\* both and never none.
C28_ExactlyOneOutcome ==
    \A d \in dispatches :
        Len(d.endpoints) > 0 =>
            /\ Cardinality(SuccessesOf(d)) + Cardinality(FailuresOf(d))
                  = (IF DispatchDone(d) THEN 1 ELSE 0)
            /\ DispatchDone(d) => ((SuccessesOf(d) # {}) <=> All2xx(d))
            /\ \A j \in FailuresOf(d) :
                  /\ {failedEvents[j].errorMessages[i] :
                         i \in 1..Len(failedEvents[j].errorMessages)} = ErrorsOf(d)
                  /\ Len(failedEvents[j].errorMessages) = Cardinality(ErrorsOf(d))
                  /\ ErrorsOf(d) # {}
                  /\ failedEvents[j].endpoints = d.endpoints
            /\ \A j \in SuccessesOf(d) :
                  successfulEvents[j].endpoints = d.endpoints

\* the first dispatch to two endpoints stored a failure with the error of
\* the one endpoint that failed, the second dispatch stored a success
C28_Witness ==
    \E d1, d2 \in dispatches :
        /\ d1.seq = d2.seq /\ d1.attempt = 1 /\ d2.attempt = 2
        /\ Len(d1.endpoints) = 2
        /\ Cardinality(FailuresOf(d1)) = 1 /\ SuccessesOf(d1) = {}
        /\ \A j \in FailuresOf(d1) : Len(failedEvents[j].errorMessages) = 1
        /\ Cardinality(SuccessesOf(d2)) = 1 /\ FailuresOf(d2) = {}
        /\ All2xx(d2)

-----------------------------------------------------------------------------
(* C29 *)

\* the payload of message m is not parseable as an event or names no tenant
Rejected(m) ==
    LET event == DecodeStruct(stream[m], {"call_id", "domain", "state", "status"})
    IN  event.err \/ event.val["domain"] = ""

\* the deliveries of m the service has not finished with
Unprocessed(m) ==
    {t.attempt : t \in {x \in tasks : x.seq = m}}
        \cup {msgChan[i].attempt : i \in {j \in 1..Len(msgChan) : msgChan[j].seq = m}}

-----------------------------------------------------------------------------
(* C31 *)

\* a step of the cancelled service that takes a message from msgChan for
\* processMessage or begins a dispatch
ReceivesAfterStop ==
    /\ proc \in {"stopping", "stopped"}
    /\ \/ Len(msgChan') < Len(msgChan) /\ tasks' # tasks /\ proc' = proc
       \/ dispatches' # dispatches

\* C31 as stated: once Stop has cancelled the service context, no message
\* is taken from msgChan and handed to processMessage, and no dispatch is
\* begun.
C31_NoReceiveAfterStop == [][~ReceivesAfterStop]_vars

-----------------------------------------------------------------------------
(* C32 *)

\* the config file holds a configuration that Load accepts
FileValid == Load(configFile).err = "none"

\* the live route table is that of the file
Reflected == routes = Load(configFile).routes

\* C32 as stated: every change of the file to valid content is eventually
\* reflected in the live route table.
C32_EveryValidChangeReflected == FileValid ~> (Reflected \/ ~FileValid)

\* C32, amended: every change that advances the modification time of the
\* file past the one the watcher saw last is picked up by the watcher's
\* next poll; a poll that finds valid content swaps the live table to the
\* routes of the file, one that finds invalid content keeps the table; the
\* live table is always the one the last reload left, and every dispatch
\* takes its endpoints from the table left by the last reload before it.
C32_AdvancedModTimeIsReloaded ==
    /\ [](/\ routes = TableAfter(Len(reloads))
          /\ lastModTime <= modTime
          /\ \A k \in 1..Len(reloads) :
                /\ reloads[k].before = TableAfter(k - 1)
                /\ reloads[k].after =
                      (IF Load(reloads[k].file).err = "none"
                       THEN Load(reloads[k].file).routes
                       ELSE reloads[k].before)
          /\ \A d \in dispatches :
                d.endpoints = GetEndpoints(TableAfter(d.epoch), d.domain))
    /\ (modTime > lastModTime)
          ~> (/\ lastModTime = modTime
              /\ reloads # <<>>
              /\ reloads[Len(reloads)].file = configFile
              /\ (FileValid => Reflected))

\* the watcher has picked up the edit that moves t2 from [A] to [B]; the
\* live table is that of the file, and a delivery dispatched after the poll
\* was POSTed to B
C32_Witness ==
    /\ lastModTime = modTime /\ modTime >= 1
    /\ FileValid /\ Reflected
    /\ reloads # <<>> /\ reloads[Len(reloads)].by = "watcher"
    /\ GetEndpoints(InitRoutes, "t2") = <<"A">>
    /\ GetEndpoints(routes, "t2") = <<"B">>
    /\ \E d \in dispatches :
          /\ d.epoch = Len(reloads) /\ d.endpoints = <<"B">>
          /\ \E q \in posts : q.seq = d.seq /\ q.attempt = d.attempt /\ q.url = "B"

-----------------------------------------------------------------------------
(* C33 *)

\* the entries of the list of successes as they were handed to the store,
\* the latest ones that fit
InsertedEntries ==
    LET kept == Latest(added, Min({Len(added), maxSize}))
    IN  [k \in 1..Len(kept) |->
            [event |-> kept[k].event, domain |-> StoreDomain(kept[k].event),
             callID |-> "c1", attempt |-> kept[k].attempt,
             endpoints |-> kept[k].endpoints]]

\* an entry as a reader sees it: its Endpoints are the contents of the array
Seen(list) == [k \in 1..Len(list) |-> [list[k] EXCEPT !.endpoints = heap[@]]]

\* C33 as stated: no stored outcome is modified after insertion and nothing
\* a caller does to a returned collection or to its entries changes what
\* the store returns: the store always shows the entries as they were
\* inserted.
C33_CallersNeverChangeTheStore ==
    Seen(successfulEvents) =
        [k \in 1..Len(InsertedEntries) |->
            [InsertedEntries[k] EXCEPT !.endpoints = StoredEndpoints]]

\* C33, amended: the getters return a new list with a copy of each entry,
\* so assigning to the returned list, to an entry of it or to a field of an
\* entry never changes the store: its list, the fields of its entries and
\* the slice headers in them stay as inserted.  The copy is shallow: the
\* arrays behind the slices are shared with the store.
C33_ListAndEntriesAreCopies == successfulEvents = InsertedEntries

\* the caller has changed a field of the first entry of the collection it
\* got from the store after the store had evicted an entry; the entry of the
\* store it was copied from is as inserted
C33_Witness ==
    /\ Len(added) > maxSize
    /\ returned.list # <<>>
    /\ returned.list[1].domain = "changed"
    /\ Len(returned.list) = Len(successfulEvents)
    /\ returned.list[1].endpoints = successfulEvents[1].endpoints
    /\ successfulEvents[1].domain \in {"t1", "t2"}
    /\ successfulEvents = InsertedEntries

-----------------------------------------------------------------------------
(* C34 *)

\* the answered exchanges of GET /api/stats
StatsReads ==
    {k \in 1..Len(apiLog) : apiLog[k].path = "/api/stats" /\ apiLog[k].status = 200}

\* the entries of list that belong to tenant dmn
OfDomain(list, dmn) == {i \in 1..Len(list) : list[i].domain = dmn}

RECURSIVE SumOf(_)
\* the sum of the counts of a map
SumOf(m) ==
    IF DOMAIN m = {} THEN 0
    ELSE LET x == CHOOSE y \in DOMAIN m : TRUE
         IN  m[x] + SumOf([z \in DOMAIN m \ {x} |-> m[z]])

\* C34: GetStats answers from one snapshot of both lists: total_successful
\* and total_failed are the numbers of stored successes and failures,
\* retry_count is the number of stored failures with will_retry set, each
\* tenant with an entry has its count and no other tenant has one, and the
\* per-tenant counts add up to the two totals.
C34_StatsCountTheSnapshot ==
    \A k \in StatsReads :
        LET st == apiLog[k].stats
            ok == apiLog[k].successful
            ko == apiLog[k].failed
        IN  /\ st.total_successful = Len(ok)
            /\ st.total_failed = Len(ko)
            /\ st.total_events = Len(ok) + Len(ko)
            /\ st.retry_count = Cardinality({i \in 1..Len(ko) : ko[i].willRetry})
            /\ DOMAIN st.successful_domain_count = {ok[i].domain : i \in 1..Len(ok)}
            /\ DOMAIN st.failed_domain_count = {ko[i].domain : i \in 1..Len(ko)}
            /\ \A dmn \in DOMAIN st.successful_domain_count :
                  st.successful_domain_count[dmn] = Cardinality(OfDomain(ok, dmn))
            /\ \A dmn \in DOMAIN st.failed_domain_count :
                  st.failed_domain_count[dmn] = Cardinality(OfDomain(ko, dmn))
            /\ SumOf(st.successful_domain_count) = st.total_successful
            /\ SumOf(st.failed_domain_count) = st.total_failed

\* the statistics were read from a store of capacity 1 that had evicted a
\* success of another tenant and holds one failure that will be retried
C34_Witness ==
    \E k \in StatsReads :
        /\ maxSize = 1
        /\ Len(AddedTo("successful")) = 2
        /\ AddedTo("successful")[1].event # AddedTo("successful")[2].event
        /\ apiLog[k].stats.total_successful = 1
        /\ apiLog[k].stats.total_failed = 1
        /\ apiLog[k].stats.retry_count = 1
        /\ apiLog[k].stats.total_events = 2


-----------------------------------------------------------------------------
(* C36 *)

\* the endpoint goroutines of ForwardEvent call t that have not finished
Running(t) == {e \in epTasks : e.seq = t.seq /\ e.attempt = t.attempt}

\* C36: while ForwardEvent waits, the join counts exactly the endpoint
\* goroutines still running and each of them can take its next step: send its
\* request, or report a result (an answer or a transport error before the
\* deadline, the timeout after it) without waiting for room in errChan; once
\* none is left, ForwardEvent returns with a failure or a success.
C36_NoEndpointTaskBlocksAndJoinReturns ==
    \A t \in tasks :
        t.pc = "forwarding" =>
            /\ t.wg = Cardinality(Running(t))
            /\ \A e \in Running(t) :
                  IF e.st = "spawned" THEN ENABLED EndpointSend(e)
                  ELSE IF t.elapsed < BackendTimeout
                  THEN ENABLED EndpointTransportError(e)
                  ELSE ENABLED EndpointTimeout(e)
            /\ t.wg = 0 => ENABLED (JoinFailure(t) \/ JoinSuccess(t))

\* every one of two endpoints failed: errChan is full and the join is due
C36_Witness ==
    \E t \in tasks :
        /\ t.pc = "forwarding"
        /\ Len(t.endpoints) = 2
        /\ Len(t.errChan) = 2
        /\ t.wg = 0


-----------------------------------------------------------------------------
(* C37 *)

\* message m is a valid event of a tenant that has endpoints
RoutedValid(m) ==
    LET event == DecodeStruct(stream[m], {"call_id", "domain", "state", "status"})
    IN  /\ ~event.err
        /\ event.val["domain"] # ""
        /\ Len(GetEndpoints(routes, event.val["domain"])) > 0

\* C37: a valid message of a routed tenant that the stream has given up on
\* was dispatched to the forwarder at least once
C37_NoMessageDiscardedUndispatched ==
    \A m \in Seqs :
        (cons[m].state = "exhausted" /\ RoutedValid(m)) =>
            \E d \in dispatches : d.seq = m


-----------------------------------------------------------------------------
(* C38 *)

\* the attempts of message m for which a Success outcome is stored
SuccessAttempts(m) ==
    {successfulEvents[j].attempt :
        j \in {k \in 1..Len(successfulEvents) : successfulEvents[k].event = stream[m]}}

\* the attempts of message m that are later than attempt a: deliveries
\* waiting in msgChan, dispatches and POSTs
LaterAttempts(m, a) ==
    ({msgChan[i].attempt : i \in {k \in 1..Len(msgChan) : msgChan[k].seq = m}}
       \cup {t.attempt : t \in {x \in tasks : x.seq = m}}
       \cup {d.attempt : d \in {x \in dispatches : x.seq = m}}
       \cup {q.attempt : q \in {x \in posts : x.seq = m}})
       \ (1..a)

-----------------------------------------------------------------------------
(* C39 *)

\* the POSTs issued in dispatch d
PostsIn(d) == {q \in posts : q.seq = d.seq /\ q.attempt = d.attempt}

\* list names exactly the endpoints POSTed in dispatch d, in order
ListsThePosted(list, d) ==
    /\ \A i \in 1..Len(list) : \E q \in PostsIn(d) : q.idx = i /\ q.url = list[i]
    /\ \A q \in PostsIn(d) : q.idx \in 1..Len(list) /\ q.url = list[q.idx]

\* C39: the endpoint list stored in the outcome of a dispatch, failure or
\* success, is exactly the list of endpoints that were POSTed in that
\* dispatch, whatever reloads changed the route table meanwhile; while the
\* dispatch runs, every POST goes to an endpoint of the list it read.
C39_OutcomeListsThePostedEndpoints ==
    \A d \in dispatches :
        Len(d.endpoints) > 0 =>
            /\ \A j \in FailuresOf(d) : ListsThePosted(failedEvents[j].endpoints, d)
            /\ \A j \in SuccessesOf(d) : ListsThePosted(successfulEvents[j].endpoints, d)
            /\ \A q \in PostsIn(d) :
                  q.idx \in 1..Len(d.endpoints) /\ q.url = d.endpoints[q.idx]

\* a dispatch that read [A] before any reload has POSTed to A and stored its
\* failure with [A]; the live table, reloaded since the dispatch began,
\* gives the tenant [B]
C39_Witness ==
    \E d \in dispatches :
        /\ d.epoch = 0
        /\ d.endpoints = <<"A">>
        /\ DispatchDone(d)
        /\ \E j \in FailuresOf(d) : failedEvents[j].endpoints = <<"A">>
        /\ PostsIn(d) # {}
        /\ reloads # <<>>
        /\ GetEndpoints(routes, d.domain) = <<"B">>


-----------------------------------------------------------------------------
(* C40 *)

\* no reload is under way: neither the watcher nor a POST /api/config/reload
\* is between its ReloadConfig and its update of h.config
ReloadsCompleted == handler.watcher = NoRef /\ handler.api = NoRef

\* C40: once every watcher reload and manual reload begun has completed, the
\* config reference of the HTTP handler is the one the forwarder holds
C40_HandlerConfigIsLiveConfig == ReloadsCompleted => handler.config = GetConfig

=============================================================================
